---- MODULE Spec2Model ----
(***************************************************************************)
(* A model of the otf_api client: the transport middleware (Chain and      *)
(* AddHeader), the token lifecycle of Client.Authenticate, and the         *)
(* resource operations that send requests through the client's transport.  *)
(*                                                                         *)
(* A call of a client operation is one atomic action (the client is used   *)
(* by one goroutine); what the network answers is the action's input.      *)
(***************************************************************************)
EXTENDS Integers, Sequences, FiniteSets, TLC

VARIABLES
    c,        \* the Client: base URLs, Token, HTTPClient.Transport
    last,     \* the last call of a client operation: its inputs and outcome
    authTok,  \* history: <<T>> once an Authenticate call returned nil with c.Token = T
    ct,       \* the last request sent through a transport built by Chain
    cli,      \* the run of a command of the command line program
    procs     \* the goroutines that call Authenticate on the one client

vars == <<c, last, authTok, ct, cli, procs>>

(***************************************************************************)
(* Bounds of the model.                                                    *)
(***************************************************************************)
\* the longest middleware list handed to Chain
MaxChain == 3

\* the most redirects a server answers a call with before its final answer
\* (http.Client gives up after ten)
MaxRedirects == 1

(***************************************************************************)
(* Values.                                                                 *)
(***************************************************************************)
\* IdToken values an auth response may carry; "" is what decoding leaves
\* when the field is absent
Tokens == {"", "tokA", "tokB"}

Usernames == {"alice", "bob"}
Passwords == {"pw"}

\* a base URL that url.Parse accepts, and one it rejects
GoodURL == "https://api.example/"
BadURL == ":bad"
URLs == {GoodURL, BadURL}

\* error values: nil; an error that wraps a cause under a static description
\* (the description is "" when the cause is returned as it is); and the
\* error of a failure status, which carries the status code and the body text
NoErr == [kind |-> "nil"]
Err(kind, cause) == [kind |-> kind, cause |-> cause]
StatusErr(kind, status, text) == [kind |-> kind, status |-> status, body |-> text]

\* http.Header, with one value per key (Header.Set leaves exactly one)
EmptyHeader == [k \in {} |-> ""]

(***************************************************************************)
(* net/textproto canonical form of the header keys the code uses.          *)
(***************************************************************************)
CanonicalHeaderKey(k) ==
    CASE k = "authorization" -> "Authorization"
      [] k = "content-type" -> "Content-Type"
      [] k = "otf-locale" -> "Otf-Locale"
      [] k = "tracestate" -> "Tracestate"
      [] k = "newrelic" -> "Newrelic"
      [] k = "traceparent" -> "Traceparent"
      [] OTHER -> k

\* a Set that builds a fresh map holding the one key
HeaderSetDropOthers(h, key, value) ==
    [x \in {CanonicalHeaderKey(key)} |-> value]

\* Header.Set(key, value): canonicalises the key and replaces its value
HeaderSet(h, key, value) ==
    LET ck == CanonicalHeaderKey(key)
    IN [x \in (DOMAIN h) \cup {ck} |-> IF x = ck THEN value ELSE h[x]]

(***************************************************************************)
(* Round trippers.  A nil http.RoundTripper, a base transport, and the     *)
(* closure AddHeader(key, value)(next).                                    *)
(***************************************************************************)
NilRT == [kind |-> "nil"]
DefaultTransport == [kind |-> "base", name |-> "http.DefaultTransport"]
MockTransport == [kind |-> "base", name |-> "mock"]

\* the Middleware value AddHeader(key, value)
AddHeader(key, value) == [key |-> key, value |-> value]

\* m(rt): the internalRoundTripper closure over key, value and rt
Wrap(m, rt) == [kind |-> "addHeader", key |-> m.key, value |-> m.value, next |-> rt]

\* the body of the closure up to its call of rt.RoundTrip(req):
\* header := req.Header; a nil header is replaced in the local variable
\* only, so a request without a header map leaves unchanged
AddHeaderApply(rt, req) ==
    IF req.hasHeader
    THEN [req EXCEPT !.header = HeaderSet(req.header, rt.key, rt.value)]
    ELSE req

\* rt.RoundTrip(req): the request as handed to the base transport, and the
\* header mutations in the order they ran
RECURSIVE RoundTrip(_, _)
RoundTrip(rt, req) ==
    IF rt.kind = "base"
    THEN [wire |-> req, log |-> << >>]
    ELSE LET r == RoundTrip(rt.next, AddHeaderApply(rt, req))
         IN [wire |-> r.wire,
             log |-> <<[key |-> rt.key, value |-> rt.value]>> \o r.log]

RECURSIVE ChainFrom(_, _, _)
ChainFrom(rt, middlewares, i) ==
    IF i > Len(middlewares)
    THEN rt
    ELSE ChainFrom(Wrap(middlewares[i], rt), middlewares, i + 1)

\* the loop of Chain run from the last middleware to the first
ChainLoopReversed(rt, middlewares) ==
    ChainFrom(rt, [i \in 1..Len(middlewares) |-> middlewares[Len(middlewares) + 1 - i]], 1)

\* for _, m := range middlewares { rt = m(rt) }
ChainLoop(rt, middlewares) == ChainFrom(rt, middlewares, 1)

Chain(rt, middlewares) ==
    ChainLoop(IF rt = NilRT THEN DefaultTransport ELSE rt, middlewares)

(***************************************************************************)
(* Requests sent through a chain built by Chain.                           *)
(***************************************************************************)
ChainKeys == {"X-A", "X-B", "X-C"}
ChainValues == {"v1", "v2"}
Middlewares == {AddHeader(k, v) : k \in ChainKeys, v \in ChainValues}

RECURSIVE SeqsUpTo(_, _)
SeqsUpTo(S, n) ==
    IF n = 0
    THEN {<< >>}
    ELSE LET shorter == SeqsUpTo(S, n - 1)
         IN shorter \cup {Append(s, x) : s \in {t \in shorter : Len(t) = n - 1}, x \in S}

\* the requests handed to the chain: without a header map, with an empty
\* one, and with one that already holds a chain key and another header
ChainRequests ==
    { [hasHeader |-> FALSE, header |-> EmptyHeader],
      [hasHeader |-> TRUE, header |-> EmptyHeader],
      [hasHeader |-> TRUE, header |-> [k \in {"X-A", "Accept"} |-> "old"]] }

ChainBases == {NilRT, MockTransport}

\* the value of ct while no chain is under study (the client specification)
NoChain == [sent |-> FALSE, base |-> NilRT, mws |-> << >>,
            req |-> [hasHeader |-> TRUE, header |-> EmptyHeader]]

\* build the transport with Chain and send the request through it
SendThroughChain ==
    /\ ~ct.sent
    /\ LET out == RoundTrip(Chain(ct.base, ct.mws), ct.req)
       IN ct' = [sent |-> TRUE, base |-> ct.base, mws |-> ct.mws, req |-> ct.req,
                 wire |-> out.wire, log |-> out.log]
    /\ UNCHANGED <<c, last, authTok, cli, procs>>

(***************************************************************************)
(* What the network answers to one request.                                *)
(***************************************************************************)
\* response bodies: gz says the bytes are a gzip stream of text, json says
\* the bytes are a JSON object; IdToken, items and studios are what the
\* object holds under AuthenticationResult.IdToken, under items and under
\* data.studios
Body(gz, json, text, tok, items) ==
    [gz |-> gz, json |-> json, text |-> text, IdToken |-> tok, items |-> items,
     studios |-> "absent"]

Bodies ==
    { Body(FALSE, TRUE, "{\"AuthenticationResult\":{\"IdToken\":\"tokA\"}}", "tokA", "absent"),
      Body(FALSE, TRUE, "{\"AuthenticationResult\":{\"IdToken\":\"tokB\"}}", "tokB", "absent"),
      Body(FALSE, TRUE, "{\"__type\":\"NotAuthorizedException\"}", "", "absent"),
      Body(FALSE, TRUE, "{\"items\":[]}", "", "empty"),
      Body(FALSE, TRUE, "{\"items\":[{\"id\":\"b1\"}]}", "", "one"),
      Body(FALSE, FALSE, "class full", "", "absent"),
      Body(TRUE, FALSE, "class full", "", "absent") }

\* net: the transport returned a response, failed, or the context was
\* cancelled; encoding: the response's Content-Encoding header; closeErr:
\* res.Body.Close fails; readErr: reading the body fails; redirects: the
\* number of 307 responses with a Location of the same host that the server
\* gave before this answer
Answer(net, status, body, encoding, closeErr, readErr) ==
    [net |-> net, status |-> status, body |-> body, encoding |-> encoding,
     closeErr |-> closeErr, readErr |-> readErr, redirects |-> 0]

NoBody == Body(FALSE, FALSE, "", "", "absent")

\* the answers with no response
Failures == { Answer(n, 0, NoBody, "", FALSE, FALSE) : n \in {"neterr", "ctxerr"} }

\* the responses with a status of sts, a body of bodies, a Content-Encoding
\* of encs, and failures of Close and of reading the body as in faults
\* (pairs <<closeErr, readErr>>)
Responses(sts, bodies, encs, faults) ==
    { Answer("resp", st, b, e, f[1], f[2]) :
        st \in sts, b \in bodies, e \in encs, f \in faults }

\* the answers of the set that come after one or more redirects: a
\* transport failure, or a 200 whose body reads and closes
Redirected(answers) ==
    { [a EXCEPT !.redirects = n] :
        a \in {x \in answers : \/ x.net = "neterr"
                               \/ /\ x.net = "resp"
                                  /\ x.status = 200
                                  /\ ~x.closeErr
                                  /\ ~x.readErr
                                  /\ x.encoding = ""},
        n \in 1..MaxRedirects }

\* the answers of the set, at once or after redirects
AfterRedirects(answers) == answers \cup Redirected(answers)

NoFault == <<FALSE, FALSE>>
CloseFails == <<TRUE, FALSE>>
ReadFails == <<FALSE, TRUE>>

TokenBodies == {b \in Bodies : b.items = "absent" /\ ~b.gz}
ItemsBodies == {b \in Bodies : b.items # "absent" \/ (~b.json /\ ~b.gz)}
TextBodies == {b \in Bodies : ~b.json}

\* answers to an auth request: any status; a token, an error document, or
\* bytes that are no JSON
AuthAnswers ==
    AfterRedirects(
        Failures \cup Responses({200, 409}, TokenBodies, {""}, {NoFault, CloseFails}))

\* a body that holds one studio under data.studios
StudiosBody ==
    [ Body(FALSE, TRUE, "{\"data\":{\"studios\":[{\"studioUUId\":\"s1\"}]}}", "", "absent")
      EXCEPT !.studios = "one" ]

\* answers to a request for studios: studios under data.studios, a list
\* under items, or bytes that are no JSON
StudiosAnswers ==
    AfterRedirects(
        Failures \cup Responses({200, 500},
                                {b \in ItemsBodies : b.items # "empty"} \cup {StudiosBody},
                                {""}, {NoFault, CloseFails, ReadFails}))

\* answers to a request for a schedule or for the class type filters
ScheduleAnswers ==
    AfterRedirects(
        Failures \cup Responses({200, 500}, ItemsBodies, {""}, {NoFault, CloseFails}))

\* answers to a booking request
BookingAnswers ==
    AfterRedirects(
        Failures \cup Responses({200, 201, 204, 409}, TextBodies, {"", "gzip"},
                                {NoFault, CloseFails, ReadFails}))

\* answers to a cancel request; two of them declare gzip, over a body that
\* is a gzip stream and over one that is not
CancelAnswers ==
    AfterRedirects(
        Failures \cup Responses({200, 201, 204, 409}, TextBodies, {""},
                                {NoFault, CloseFails, ReadFails})
                 \cup Responses({409}, TextBodies, {"gzip"}, {NoFault}))

\* answers to a request for the bookings
BookingsAnswers ==
    AfterRedirects(
        Failures \cup Responses({200, 204, 500}, ItemsBodies, {""},
                                {NoFault, CloseFails, ReadFails})
                 \cup Responses({500}, TextBodies, {"gzip"}, {NoFault}))

\* the bytes of the body as text: string(body)
RawText(body) == IF body.gz THEN "gzip(" \o body.text \o ")" ELSE body.text

\* json.Unmarshal(body, &v): the bytes are a JSON object
DecodeOK(body) == ~body.gz /\ body.json

\* json.NewDecoder(res.Body).Decode(&v): reads the body, then decodes it
Decodes(ans) == ~ans.readErr /\ DecodeOK(ans.body)

(***************************************************************************)
(* The client.                                                             *)
(***************************************************************************)
NoClient == [BaseIOURL |-> GoodURL, BaseCOURL |-> GoodURL, AuthURL |-> GoodURL,
             Token |-> "", Transport |-> NilRT]
NoCall == [op |-> "none"]

\* the values of cli and procs while no command runs and no goroutine
\* shares the client
NoRun == [pc |-> "none"]
NoProcs == << >>

\* a NewClient that tests two of the three URLs
NewClientTwoURLs(baseIOURL, baseCOURL, authURL) ==
    IF baseIOURL = "" \/ baseCOURL = ""
    THEN [client |-> NilRT, err |-> Err("base urls not configured correctly", "config")]
    ELSE [client |-> [BaseIOURL |-> baseIOURL, BaseCOURL |-> baseCOURL,
                      AuthURL |-> authURL, Token |-> "", Transport |-> NilRT],
          err |-> NoErr]

\* NewClient, given the three environment variables
NewClient(baseIOURL, baseCOURL, authURL) ==
    IF baseIOURL = "" \/ baseCOURL = "" \/ authURL = ""
    THEN [client |-> NilRT, err |-> Err("base urls not configured correctly", "config")]
    ELSE [client |-> [BaseIOURL |-> baseIOURL, BaseCOURL |-> baseCOURL,
                      AuthURL |-> authURL, Token |-> "", Transport |-> NilRT],
          err |-> NoErr]

\* the environment of the process: whether godotenv.Load(".env") succeeds,
\* the variables of the process, and the variables of the .env file
Unset == "<unset>"
EnvKeys == {"OTF_API_IO_BASE_URL", "OTF_API_CO_BASE_URL", "OTF_AUTH_URL"}
Env(loads, os, file) == [loads |-> loads, os |-> os, file |-> file]

\* os.Getenv(key) after godotenv.Load(".env"), which sets the variables of
\* the file that the process does not have yet
Getenv(env, key) ==
    IF env.os[key] # Unset
    THEN env.os[key]
    ELSE IF env.loads /\ env.file[key] # Unset THEN env.file[key] ELSE ""

\* getEnvVar: log.Fatal when the .env file does not load
getEnvVar(env, key) ==
    IF ~env.loads
    THEN [fatal |-> TRUE, value |-> ""]
    ELSE [fatal |-> FALSE, value |-> Getenv(env, key)]

\* NewClient() in the environment env: the process exits in the first
\* getEnvVar when the .env file does not load
NewClientIn(env) ==
    LET io == getEnvVar(env, "OTF_API_IO_BASE_URL")
        co == getEnvVar(env, "OTF_API_CO_BASE_URL")
        auth == getEnvVar(env, "OTF_AUTH_URL")
    IN IF io.fatal \/ co.fatal \/ auth.fatal
       THEN [fatal |-> TRUE, client |-> NilRT, err |-> NoErr]
       ELSE LET n == NewClient(io.value, co.value, auth.value)
            IN [fatal |-> FALSE, client |-> n.client, err |-> n.err]

\* url.Parse of a URL that starts with base
URLParses(base) == base # BadURL

\* http.NewRequestWithContext: a request with an empty, non-nil header map
NewRequest(method, base, path, query, body) ==
    [method |-> method, base |-> base, path |-> path, query |-> query,
     hasHeader |-> TRUE, header |-> EmptyHeader, body |-> body]

\* the transport c.HTTPClient sends with: http.DefaultTransport when the
\* Transport field is nil
TransportOf(cl) ==
    IF cl.Transport = NilRT THEN DefaultTransport ELSE cl.Transport

\* the URL of a request
URLOf(req) == [base |-> req.base, path |-> req.path, query |-> req.query]

\* the URL a redirect names in its Location header, on the host of req
Location(req) == [base |-> req.base, path |-> "moved", query |-> << >>]

\* the request http.Client builds to follow a 307 answer to prev: the
\* method and the body of the caller's request req, the URL of the
\* Location header, the headers the caller set, and a Referer header that
\* holds the URL of prev
FollowUp(req, prev) ==
    [req EXCEPT !.base = Location(req).base,
                !.path = Location(req).path,
                !.query = Location(req).query,
                !.hasHeader = TRUE,
                !.header = HeaderSet(req.header, "Referer", URLOf(prev))]

\* the n-th request of a call: the caller's request, then the follow-ups
RECURSIVE NthRequest(_, _)
NthRequest(req, n) ==
    IF n = 0 THEN req ELSE FollowUp(req, NthRequest(req, n - 1))

\* the base transport a round tripper ends in
RECURSIVE BaseTransportOf(_)
BaseTransportOf(rt) == IF rt.kind = "base" THEN rt ELSE BaseTransportOf(rt.next)

\* req.Header.Get(key) # "": the request has a value under the key
HasHeader(req, key) == req.hasHeader /\ key \in DOMAIN req.header

\* http.DefaultTransport (DisableCompression is false) asks for gzip on its
\* own when the request that reaches it has no Accept-Encoding and no Range
\* header and is no HEAD request
AddsGzip(base, req) ==
    /\ base = DefaultTransport
    /\ ~HasHeader(req, "Accept-Encoding")
    /\ ~HasHeader(req, "Range")
    /\ req.method # "HEAD"

\* a transport that hands every response over as the network sent it
UncompressNever(base, req, ans) == ans

\* the response the base transport hands over for the request req when the
\* network answers ans: when the transport asked for gzip itself and the
\* answer declares gzip, the body is read through a gzip reader and the
\* Content-Encoding header is deleted; reading bytes that are no gzip
\* stream through that reader fails
Uncompress(base, req, ans) ==
    IF ans.net = "resp" /\ AddsGzip(base, req) /\ ans.encoding = "gzip"
    THEN [ans EXCEPT !.encoding = "",
                     !.body = [ans.body EXCEPT !.gz = FALSE],
                     !.readErr = ans.readErr \/ ~ans.body.gz]
    ELSE ans

\* c.HTTPClient.Do(req): the request goes through the client's transport;
\* the client has no CheckRedirect, so Do follows every redirect of the
\* answer with a further request through the same transport, and returns
\* the final response.  wire and log are those of the first request, sent
\* holds every request handed to the base transport, in order, and res is
\* the response as the base transport hands it over for the last of them
Do(cl, req, ans) ==
    LET first == RoundTrip(TransportOf(cl), req)
        sent == [n \in 1..(1 + ans.redirects) |->
                    RoundTrip(TransportOf(cl), NthRequest(req, n - 1)).wire]
    IN [wire |-> first.wire, log |-> first.log, sent |-> sent,
        res |-> Uncompress(BaseTransportOf(TransportOf(cl)), sent[Len(sent)], ans)]

\* the requests an operation has handed to the base transport when its one
\* call of c.HTTPClient.Do returns
Sent(d) == d.sent

\* res of res, err := c.HTTPClient.Do(req)
Response(d) == d.res

\* an error test that lets a cancelled context through
SendFailedNetOnly(ans) == ans.net = "neterr"

\* err != nil after c.HTTPClient.Do: the transport failed, or the context
\* of the request was cancelled before or during the call
SendFailed(ans) == ans.net # "resp"

\* a NeedAuth that asks for authentication whatever the token is
NeedAuthAlways(cl) == TRUE

NeedAuth(cl) == cl.Token = ""

\* the outcome of a call: the client after it, the error returned, the
\* requests handed to the base transport, and the result returned
Outcome(cl, err, sent, result) ==
    [c |-> cl, err |-> err, sent |-> sent, result |-> result]

NoResult == "none"

\* a transport that injects the raw token
AuthTransportRawToken(token) ==
    Chain(NilRT,
          << AddHeader(CanonicalHeaderKey("authorization"), token),
             AddHeader(CanonicalHeaderKey("content-type"), "application/json") >>)

\* the transport Authenticate installs
AuthTransport(token) ==
    Chain(NilRT,
          << AddHeader(CanonicalHeaderKey("authorization"), "Bearer " \o token),
             AddHeader(CanonicalHeaderKey("content-type"), "application/json") >>)

AuthRequest(cl, username, password) ==
    [ NewRequest("POST", cl.AuthURL, "", << >>,
                 [AuthParameters |-> [USERNAME |-> username, PASSWORD |-> password],
                  AuthFlow |-> "USER_PASSWORD_AUTH",
                  ClientId |-> "OTF_CLIENT_ID"])
      EXCEPT !.header = [k \in {"Content-Type", "X-Amz-Target"} |->
                            IF k = "Content-Type"
                            THEN "application/x-amz-json-1.1"
                            ELSE "AWSCognitoIdentityProviderService.InitiateAuth"] ]

\* the part of Authenticate behind the NeedAuth guard
AuthenticateBody(cl, username, password, ans) ==
    IF ~URLParses(cl.AuthURL)
    THEN Outcome(cl, Err("error preparing request", "url"), << >>, NoResult)
    ELSE LET d == Do(cl, AuthRequest(cl, username, password), ans)
         IN IF SendFailed(ans)
            THEN Outcome(cl, Err("error authenticating", ans.net), Sent(d), NoResult)
            ELSE IF ~Decodes(Response(d))
            THEN Outcome(cl, Err("error parsing response", "decode"), Sent(d), NoResult)
            ELSE LET token == Response(d).body.IdToken
                 IN Outcome([cl EXCEPT !.Token = token,
                                       !.Transport = AuthTransport(token)],
                            IF Response(d).closeErr
                            THEN Err("error closing response body", "close")
                            ELSE NoErr,
                            Sent(d), NoResult)

\* an Authenticate without the NeedAuth guard
AuthenticateUnguarded(cl, username, password, ans) ==
    AuthenticateBody(cl, username, password, ans)

AuthenticateCall(cl, username, password, ans) ==
    IF NeedAuth(cl)
    THEN AuthenticateBody(cl, username, password, ans)
    ELSE Outcome(cl, NoErr, << >>, NoResult)

\* Authenticate of the first revision of otf_api.go: behind the same
\* NeedAuth guard it stores the token and leaves HTTPClient.Transport as it
\* is; the body is closed by a plain defer, so a failing Close is not
\* returned
AuthenticateTokenOnly(cl, username, password, ans) ==
    IF ~NeedAuth(cl)
    THEN Outcome(cl, NoErr, << >>, NoResult)
    ELSE IF ~URLParses(cl.AuthURL)
    THEN Outcome(cl, Err("error preparing request", "url"), << >>, NoResult)
    ELSE LET d == Do(cl, AuthRequest(cl, username, password), ans)
         IN IF SendFailed(ans)
            THEN Outcome(cl, Err("error authenticating", ans.net), Sent(d), NoResult)
            ELSE IF ~Decodes(Response(d))
            THEN Outcome(cl, Err("error parsing response", "decode"), Sent(d), NoResult)
            ELSE Outcome([cl EXCEPT !.Token = Response(d).body.IdToken],
                         NoErr, Sent(d), NoResult)

(***************************************************************************)
(* The resource operations.                                                *)
(***************************************************************************)
\* req.Header.Set for each pair of the list, in order
RECURSIVE SetAll(_, _, _)
SetAll(h, pairs, i) ==
    IF i > Len(pairs)
    THEN h
    ELSE SetAll(HeaderSet(h, pairs[i][1], pairs[i][2]), pairs, i + 1)

WithHeaders(req, pairs) == [req EXCEPT !.header = SetAll(req.header, pairs, 1)]

UserAgent == "Orangetheory/403 CFNetwork/3826.600.41 Darwin/24.6.0"

\* the items of a decoded envelope: nil when the field is absent
Items(body) ==
    CASE body.items = "absent" -> [isNil |-> TRUE, items |-> << >>]
      [] body.items = "empty" -> [isNil |-> FALSE, items |-> << >>]
      [] body.items = "list" -> [isNil |-> FALSE, items |-> body.list]
      [] OTHER -> [isNil |-> FALSE, items |-> <<"b1">>]

ZeroItems == [isNil |-> TRUE, items |-> << >>]

\* Data.Data of a decoded ListStudiosResponse: the list under data.studios,
\* nil when the document has none
Studios(body) ==
    CASE body.studios = "absent" -> [isNil |-> TRUE, items |-> << >>]
      [] body.studios = "list" -> [isNil |-> FALSE, items |-> body.list]
      [] OTHER -> [isNil |-> FALSE, items |-> <<"s1">>]

\* a float64 argument: the number whole + tail * 10^-16, with tail a single
\* digit (a tail other than 0 goes with whole = 0 only: next to 30 the
\* float64 values are further apart than 10^-15)
Float(whole, tail) == [whole |-> whole, tail |-> tail]

\* a formatting that keeps sixteen decimals
toStringSixteen(v) ==
    ToString(v.whole) \o ".000000000000000" \o ToString(v.tail)

\* strconv.FormatFloat(v, 'f', 15, 64): fifteen decimals, rounded to nearest
toString(v) ==
    ToString(v.whole) \o "." \o
        (IF v.tail >= 5 THEN "000000000000001" ELSE "000000000000000")

\* ListStudios of the studios file that decodes the response
ListStudios(cl, lat, long, distance, ans) ==
    IF ~URLParses(cl.BaseCOURL)
    THEN Outcome(cl, Err("", "url"), << >>, ZeroItems)
    ELSE LET req == NewRequest("GET", cl.BaseCOURL, "studios",
                               << <<"distance", toString(distance)>>,
                                  <<"latitude", toString(lat)>>,
                                  <<"longitude", toString(long)>> >>, "")
             d == Do(cl, req, ans)
         IN IF SendFailed(ans)
            THEN Outcome(cl, Err("", ans.net), Sent(d), ZeroItems)
            ELSE IF ~Decodes(Response(d))
            THEN Outcome(cl, Err("", "decode"), Sent(d), ZeroItems)
            ELSE Outcome(cl, NoErr, Sent(d), Studios(Response(d).body))

\* ListStudios of src/otf_api/studios.go: fixed query, prints the body
ListStudiosPrinting(cl, lat, long, distance, ans) ==
    IF ~URLParses(cl.BaseCOURL)
    THEN Outcome(cl, Err("", "url"), << >>, NoResult)
    ELSE LET req == [ NewRequest("GET", cl.BaseCOURL, "studios",
                                 << <<"distance", "50.0">>,
                                    <<"latitude", "30.259373217464326">>,
                                    <<"longitude", "-97.70429793893">> >>, "")
                      EXCEPT !.header = [k \in {"Content-Type", "Authorization"} |->
                                            IF k = "Content-Type"
                                            THEN "application/json"
                                            ELSE cl.Token] ]
             d == Do(cl, req, ans)
         IN IF SendFailed(ans)
            THEN Outcome(cl, Err("", ans.net), Sent(d), NoResult)
            ELSE IF Response(d).readErr
            THEN Outcome(cl, Err("", "read"), Sent(d), NoResult)
            ELSE Outcome(cl, NoErr, Sent(d), NoResult)

GetStudiosSchedules(cl, studioIDs, ans) ==
    IF ~URLParses(cl.BaseIOURL)
    THEN Outcome(cl, Err("", "url"), << >>, ZeroItems)
    ELSE LET req == NewRequest("GET", cl.BaseIOURL, "classes",
                               [i \in 1..Len(studioIDs) |-> <<"studio_ids", studioIDs[i]>>],
                               "")
             d == Do(cl, req, ans)
         IN IF SendFailed(ans)
            THEN Outcome(cl, Err("", ans.net), Sent(d), ZeroItems)
            ELSE IF ~Decodes(Response(d))
            THEN Outcome(cl, Err("error parsing response", "decode"), Sent(d), ZeroItems)
            ELSE Outcome(cl, NoErr, Sent(d), Items(Response(d).body))

GetClassTypeFilter(cl, ans) ==
    IF ~URLParses(cl.BaseIOURL)
    THEN Outcome(cl, Err("preparing request for GetClassTypeFilter", "url"), << >>, ZeroItems)
    ELSE LET req == NewRequest("GET", cl.BaseIOURL, "classes/filters", << >>, "")
             d == Do(cl, req, ans)
         IN IF SendFailed(ans)
            THEN Outcome(cl, Err("executing request for GetClassTypeFilter", ans.net),
                         Sent(d), ZeroItems)
            ELSE IF ~Decodes(Response(d))
            THEN Outcome(cl, Err("error parsing response for GetClassTypeFilter", "decode"),
                         Sent(d), ZeroItems)
            ELSE Outcome(cl,
                         IF Response(d).closeErr
                         THEN Err("error closing response body for GetClassTypeFilter", "close")
                         ELSE NoErr,
                         Sent(d), Items(Response(d).body))

\* a body text that is never decompressed
BookClassErrorBodyRaw(ans) == RawText(ans.body)

\* the body text BookClass puts in the error of a failed status: read
\* through a gzip reader when Content-Encoding contains "gzip", read as it
\* is otherwise
BookClassErrorBody(ans) ==
    IF ans.encoding = "gzip" THEN ans.body.text ELSE RawText(ans.body)

\* a status test that accepts 200 alone
BookClassFailedNot200(status) == status # 200

\* the status test of BookClass
BookClassFailed(status) == status # 200 /\ status # 201

BookClass(cl, bookingReq, ans) ==
    IF ~bookingReq.marshals
    THEN Outcome(cl, Err("failed marshaling request body", "marshal"), << >>, NoResult)
    ELSE IF ~URLParses(cl.BaseIOURL)
    THEN Outcome(cl, Err("error joining path", "url"), << >>, NoResult)
    ELSE LET req == WithHeaders(
                        NewRequest("POST", cl.BaseIOURL, "bookings/me", << >>, bookingReq),
                        << <<"Content-Type", "application/json">>,
                           <<"Accept", "application/json">>,
                           <<"Authorization", cl.Token>>,
                           <<"otf-locale", "en_US">>,
                           <<"Accept-Language", "en-US,en;q=0.9">>,
                           <<"Accept-Encoding", "gzip">>,
                           <<"User-Agent", UserAgent>>,
                           <<"tracestate", "1891601@nr=0-2-1891601-162062094-9ba640a524edf6ae---1756927588442">>,
                           <<"newrelic", "ewoiZCI6IHsKImFjIjogIjE4OTE2MDEiLAoiYXAiOiAiMTYyMDYyMDk0IiwKImlkIjogIjliYTY0MGE1MjRlZGY2YWUiLAoidGkiOiAxNzU2OTI3NTg4NDQyLAoidHIiOiAiNGYwYzI5MDc4NjA3NjAxODc4NGI3NTIxNTE5NzNiMDYiLAoidHkiOiAiTW9iaWxlIgp9LAoidiI6IFsKMCwKMgpdCn0=">>,
                           <<"traceparent", "00-4f0c290786076018784b752151973b06-9ba640a524edf6ae-01">> >>)
             d == Do(cl, req, ans)
             res == Response(d)
         IN IF SendFailed(ans)
            THEN Outcome(cl, Err("error executing request", ans.net), Sent(d), NoResult)
            ELSE IF BookClassFailed(res.status)
            THEN IF res.encoding = "gzip" /\ (~res.body.gz \/ res.readErr)
                 THEN Outcome(cl,
                              [kind |-> "booking request failed with status code, failed to create gzip reader",
                               status |-> res.status, cause |-> "gzip"],
                              Sent(d), NoResult)
                 ELSE IF res.readErr
                 THEN Outcome(cl,
                              [kind |-> "booking request failed with status code, and failed to read response body",
                               status |-> res.status, cause |-> "read"],
                              Sent(d), NoResult)
                 ELSE Outcome(cl,
                              StatusErr("booking request failed with status code",
                                        res.status,
                                        BookClassErrorBody(res)),
                              Sent(d), NoResult)
            ELSE Outcome(cl, NoErr, Sent(d), NoResult)

\* a status test that accepts 200 alone
CancelBookingFailedNot200(status) == status # 200

\* the status test of CancelBooking
CancelBookingFailed(status) == status # 200 /\ status # 204

CancelBooking(cl, bookingID, ans) ==
    IF ~URLParses(cl.BaseIOURL)
    THEN Outcome(cl, Err("error joining path", "url"), << >>, NoResult)
    ELSE LET req == WithHeaders(
                        NewRequest("DELETE", cl.BaseIOURL, "bookings/me/" \o bookingID, << >>, ""),
                        << <<"Authorization", cl.Token>>,
                           <<"otf-locale", "en_US">>,
                           <<"Accept", "application/json">>,
                           <<"Accept-Language", "en-US,en;q=0.9">>,
                           <<"User-Agent", UserAgent>> >>)
             d == Do(cl, req, ans)
             res == Response(d)
         IN IF SendFailed(ans)
            THEN Outcome(cl, Err("error executing request", ans.net), Sent(d), NoResult)
            ELSE IF CancelBookingFailed(res.status)
            THEN IF res.readErr
                 THEN Outcome(cl,
                              [kind |-> "cancel request failed with status code, and failed to read response body",
                               status |-> res.status, cause |-> "read"],
                              Sent(d), NoResult)
                 ELSE Outcome(cl,
                              StatusErr("cancel request failed with status code",
                                        res.status, RawText(res.body)),
                              Sent(d), NoResult)
            ELSE Outcome(cl, NoErr, Sent(d), NoResult)

\* fmt.Sprintf("%t", b)
FormatBool(b) == IF b THEN "true" ELSE "false"

NilItems == [isNil |-> TRUE, items |-> << >>]

\* a status test that accepts every 2xx status
GetBookingsFailedNon2xx(status) == status < 200 \/ status > 299

\* the status test of GetBookings
GetBookingsFailed(status) == status # 200

GetBookings(cl, startsAfter, endsBefore, includeCanceled, ans) ==
    IF ~URLParses(cl.BaseIOURL)
    THEN Outcome(cl, Err("error joining path", "url"), << >>, NilItems)
    ELSE LET req == WithHeaders(
                        NewRequest("GET", cl.BaseIOURL, "bookings/me",
                                   << <<"ends_before", endsBefore>>,
                                      <<"include_canceled", FormatBool(includeCanceled)>>,
                                      <<"starts_after", startsAfter>> >>, ""),
                        << <<"Authorization", cl.Token>>,
                           <<"otf-locale", "en_US">>,
                           <<"Accept", "application/json">>,
                           <<"Accept-Language", "en-US,en;q=0.9">>,
                           <<"User-Agent", UserAgent>> >>)
             d == Do(cl, req, ans)
             res == Response(d)
         IN IF SendFailed(ans)
            THEN Outcome(cl, Err("error executing request", ans.net), Sent(d), NilItems)
            ELSE IF GetBookingsFailed(res.status)
            THEN IF res.readErr
                 THEN Outcome(cl,
                              [kind |-> "get bookings request failed with status code, and failed to read response body",
                               status |-> res.status, cause |-> "read"],
                              Sent(d), NilItems)
                 ELSE Outcome(cl,
                              StatusErr("get bookings request failed with status code",
                                        res.status, RawText(res.body)),
                              Sent(d), NilItems)
            ELSE IF res.readErr
            THEN Outcome(cl, Err("error reading response body", "read"), Sent(d), NilItems)
            ELSE IF ~DecodeOK(res.body)
            THEN Outcome(cl, Err("error unmarshaling response", "decode"), Sent(d), NilItems)
            ELSE Outcome(cl, NoErr, Sent(d), Items(res.body))

(***************************************************************************)
(* The client specification: NewClient, then any sequence of calls.        *)
(***************************************************************************)
StudioIDLists == {<<"s1">>, <<"s1", "s2">>}
\* (lat, long, distance): a usual call, a call with a negative distance, and
\* two calls whose distances differ below the fifteenth decimal
Coordinates ==
    { <<Float(30, 0), Float(-97, 0), Float(50, 0)>>,
      <<Float(0, 0), Float(0, 0), Float(-1, 0)>>,
      <<Float(0, 0), Float(0, 0), Float(0, 1)>>,
      <<Float(0, 0), Float(0, 0), Float(0, 2)>> }
BookingReqs ==
    { [marshals |-> TRUE, classId |-> "c1", confirmed |-> TRUE, waitlist |-> FALSE],
      [marshals |-> FALSE, classId |-> "", confirmed |-> FALSE, waitlist |-> FALSE] }
BookingIDs == {"b1"}

ResourceOps == {"ListStudios", "ListStudiosPrinting", "GetStudiosSchedules",
                "GetClassTypeFilter", "BookClass", "CancelBooking", "GetBookings"}

\* the record of a call: the client before it, the arguments, the answer of
\* the network, and the outcome
Call(op, args, ans, o) ==
    [op |-> op, args |-> args, ans |-> ans, before |-> c,
     err |-> o.err, sent |-> o.sent, result |-> o.result]

Authenticate ==
    \E username \in Usernames, password \in Passwords, ans \in AuthAnswers :
        LET o == AuthenticateCall(c, username, password, ans)
        IN /\ c' = o.c
           /\ last' = Call("Authenticate", <<username, password>>, ans, o)
           /\ authTok' = IF o.err = NoErr THEN <<o.c.Token>> ELSE authTok
           /\ UNCHANGED <<ct, cli, procs>>

\* a call of a resource operation that drops the installed transport
ResourceDropsTransport(op, args, ans, o) ==
    /\ c' = [o.c EXCEPT !.Transport = NilRT]
    /\ last' = Call(op, args, ans, o)
    /\ UNCHANGED <<authTok, ct, cli, procs>>

\* a call of a resource operation with outcome o
Resource(op, args, ans, o) ==
    /\ c' = o.c
    /\ last' = Call(op, args, ans, o)
    /\ UNCHANGED <<authTok, ct, cli, procs>>

CallListStudios ==
    \E xyz \in Coordinates, ans \in StudiosAnswers :
        Resource("ListStudios", xyz, ans, ListStudios(c, xyz[1], xyz[2], xyz[3], ans))

CallListStudiosPrinting ==
    \E xyz \in Coordinates, ans \in StudiosAnswers :
        Resource("ListStudiosPrinting", xyz, ans,
                 ListStudiosPrinting(c, xyz[1], xyz[2], xyz[3], ans))

CallGetStudiosSchedules ==
    \E ids \in StudioIDLists, ans \in ScheduleAnswers :
        Resource("GetStudiosSchedules", ids, ans, GetStudiosSchedules(c, ids, ans))

CallGetClassTypeFilter ==
    \E ans \in ScheduleAnswers :
        Resource("GetClassTypeFilter", << >>, ans, GetClassTypeFilter(c, ans))

CallBookClass ==
    \E bookingReq \in BookingReqs,
       ans \in BookingAnswers :
        \* a request that does not marshal is never sent: one answer is enough
        (bookingReq.marshals \/ ans.net = "neterr") /\
        Resource("BookClass", <<bookingReq>>, ans, BookClass(c, bookingReq, ans))

CallCancelBooking ==
    \E bookingID \in BookingIDs, ans \in CancelAnswers :
        Resource("CancelBooking", <<bookingID>>, ans, CancelBooking(c, bookingID, ans))

CallGetBookings ==
    \E includeCanceled \in BOOLEAN, ans \in BookingsAnswers :
        Resource("GetBookings", <<includeCanceled>>, ans,
                 GetBookings(c, "2025-09-01T00:00:00Z", "2025-10-01T00:00:00Z",
                             includeCanceled, ans))

\* the configurations NewClient is given: three URLs that parse, or three
\* that do not (an operation reads its own base URL only)
Configs == { [k \in {"io", "co", "auth"} |-> u] : u \in URLs }

Init ==
    /\ \E cfg \in Configs :
          LET n == NewClient(cfg["io"], cfg["co"], cfg["auth"])
          IN n.err = NoErr /\ c = n.client
    /\ last = NoCall
    /\ authTok = << >>
    /\ ct = NoChain
    /\ cli = NoRun
    /\ procs = NoProcs

Next ==
    \/ Authenticate
    \/ CallListStudios
    \/ CallListStudiosPrinting
    \/ CallGetStudiosSchedules
    \/ CallGetClassTypeFilter
    \/ CallBookClass
    \/ CallCancelBooking
    \/ CallGetBookings

Spec == Init /\ [][Next]_vars

(***************************************************************************)
(* The client of the first revision of otf_api.go (lines 1 to 201), which  *)
(* declares Authenticate, NeedAuth and ListStudios itself: a build holds   *)
(* either that file or auth.go and the studios file, never both.           *)
(***************************************************************************)
CallAuthenticateTokenOnly ==
    \E username \in Usernames, password \in Passwords, ans \in AuthAnswers :
        LET o == AuthenticateTokenOnly(c, username, password, ans)
        IN /\ c' = o.c
           /\ last' = Call("AuthenticateTokenOnly", <<username, password>>, ans, o)
           /\ UNCHANGED <<authTok, ct, cli, procs>>

InitTokenOnly == Init

NextTokenOnly ==
    \/ CallAuthenticateTokenOnly
    \/ CallListStudiosPrinting

SpecTokenOnly == InitTokenOnly /\ [][NextTokenOnly]_vars

InitChain ==
    /\ \E base \in ChainBases, mws \in SeqsUpTo(Middlewares, MaxChain), req \in ChainRequests :
          ct = [sent |-> FALSE, base |-> base, mws |-> mws, req |-> req]
    /\ c = NoClient
    /\ last = NoCall
    /\ authTok = << >>
    /\ cli = NoRun
    /\ procs = NoProcs

NextChain == SendThroughChain

SpecChain == InitChain /\ [][NextChain]_vars

(***************************************************************************)
(* The specification of NewClient: an environment, then one call.          *)
(***************************************************************************)
\* a variable of the process is unset, empty, or a URL; a variable of the
\* .env file is absent or a URL
Envs ==
    { Env(loads, os, file) :
        loads \in BOOLEAN,
        os \in [EnvKeys -> {Unset, "", GoodURL}],
        file \in [EnvKeys -> {Unset, "https://env.example/"}] }

InitNewClient ==
    /\ \E env \in Envs : last = [op |-> "env", env |-> env]
    /\ c = NoClient
    /\ authTok = << >>
    /\ ct = NoChain
    /\ cli = NoRun
    /\ procs = NoProcs

\* the call of NewClient(); after a log.Fatal there is no client and no
\* result
CallNewClient ==
    /\ last.op = "env"
    /\ LET n == NewClientIn(last.env)
       IN /\ last' = [op |-> "NewClient", env |-> last.env, fatal |-> n.fatal,
                      isNil |-> (n.client = NilRT), err |-> n.err]
          /\ c' = IF n.client = NilRT THEN NoClient ELSE n.client
    /\ UNCHANGED <<authTok, ct, cli, procs>>

NextNewClient == CallNewClient

SpecNewClient == InitNewClient /\ [][NextNewClient]_vars

(***************************************************************************)
(* The configuration file of the command line program.                     *)
(***************************************************************************)
\* CLIConfig{}
EmptyConfig == [PreferredStudioIDs |-> << >>, Timezone |-> ""]

\* the file at the configuration path: it does not exist, it exists and
\* cannot be read, or it holds bytes: a JSON document of the shape of
\* CLIConfig, a JSON document whose timezone is not a string, or no JSON
MissingFile == [kind |-> "missing"]
UnreadableFile == [kind |-> "unreadable"]
ConfigFile(kind, ids, tz) == [kind |-> kind, ids |-> ids, tz |-> tz]

\* what the program finds on the disk: os.UserConfigDir and os.MkdirAll
\* succeed or fail, and the file
FileSystem(configDir, mkdir, file) ==
    [configDir |-> configDir, mkdir |-> mkdir, file |-> file]

\* getConfigPath
getConfigPath(fs) ==
    IF fs.configDir # "ok"
    THEN [path |-> "", err |-> Err("failed to get user config directory", "configdir")]
    ELSE IF fs.mkdir # "ok"
    THEN [path |-> "", err |-> Err("failed to create cli config directory", "mkdir")]
    ELSE [path |-> "otf-cli/config.json", err |-> NoErr]

\* json.Unmarshal(data, &config): a document that is no JSON leaves config
\* untouched; a field of the wrong type is skipped, the others are stored,
\* and an error is returned
UnmarshalConfig(file) ==
    CASE file.kind = "json" ->
            [config |-> [PreferredStudioIDs |-> file.ids, Timezone |-> file.tz],
             err |-> NoErr]
      [] file.kind = "mistyped" ->
            [config |-> [PreferredStudioIDs |-> file.ids, Timezone |-> ""],
             err |-> Err("failed to unmarshal config data", "type")]
      [] OTHER ->
            [config |-> EmptyConfig,
             err |-> Err("failed to unmarshal config data", "syntax")]

\* a loadConfig that reports a missing file as a read error
loadConfigMissingIsError(fs) ==
    LET p == getConfigPath(fs)
    IN IF p.err # NoErr
       THEN [config |-> EmptyConfig, err |-> p.err]
       ELSE IF fs.file.kind \in {"missing", "unreadable"}
       THEN [config |-> EmptyConfig, err |-> Err("failed to read config file", "read")]
       ELSE UnmarshalConfig(fs.file)

\* loadConfig
loadConfig(fs) ==
    LET p == getConfigPath(fs)
    IN IF p.err # NoErr
       THEN [config |-> EmptyConfig, err |-> p.err]
       ELSE IF fs.file.kind = "missing"
       THEN [config |-> EmptyConfig, err |-> NoErr]
       ELSE IF fs.file.kind = "unreadable"
       THEN [config |-> EmptyConfig, err |-> Err("failed to read config file", "read")]
       ELSE UnmarshalConfig(fs.file)

\* the studio lists and the timezones a configuration file holds
ConfigIDs == {<< >>, <<"s1">>, <<"s1", "s2">>}
ConfigTimezones == {"", "America/Chicago", "Mars/Phobos"}

ConfigFiles ==
    {MissingFile, UnreadableFile, ConfigFile("garbage", << >>, "")}
        \cup {ConfigFile("mistyped", ids, "") : ids \in ConfigIDs \ {<< >>}}
        \cup {ConfigFile("json", ids, tz) : ids \in ConfigIDs, tz \in ConfigTimezones}

FileSystems ==
    { FileSystem(d, m, f) : d \in {"ok", "err"}, m \in {"ok", "err"}, f \in ConfigFiles }

InitLoadConfig ==
    /\ \E fs \in FileSystems : last = [op |-> "fs", fs |-> fs]
    /\ c = NoClient
    /\ authTok = << >>
    /\ ct = NoChain
    /\ cli = NoRun
    /\ procs = NoProcs

CallLoadConfig ==
    /\ last.op = "fs"
    /\ LET r == loadConfig(last.fs)
       IN last' = [op |-> "loadConfig", fs |-> last.fs, config |-> r.config, err |-> r.err]
    /\ UNCHANGED <<c, authTok, ct, cli, procs>>

NextLoadConfig == CallLoadConfig

SpecLoadConfig == InitLoadConfig /\ [][NextLoadConfig]_vars

(***************************************************************************)
(* The command line program: one run of one command.  A step of the run    *)
(* goes from one input (an answer of the network, an answer of the user)   *)
(* to the next; log.Fatal ends the run.                                    *)
(***************************************************************************)
\* the longest list of bookings, classes or studios a response holds
MaxFetched == 2

\* a booking of the response of GetBookings; display is the option line
\* built from its day, class name, studio name and time
Booking(id, canceled, display) ==
    [ID |-> id, Canceled |-> canceled, display |-> display]

\* a class of the response of GetStudiosSchedules; display is the option
\* line built from its name, start time, end time and studio name (the day
\* is in the header line, not in the option line)
StudioClass(id, canceled, capacity, day, display) ==
    [ID |-> id, Canceled |-> canceled, BookingCapacity |-> capacity,
     day |-> day, display |-> display]

\* a studio of the response of ListStudios
Studio(id) == [ID |-> id, display |-> "studio " \o id]

\* two of the bookings, and two of the classes, have the same option line
CLIBookings ==
    { Booking("b1", FALSE, "Mon Jan 2 - Orange 60 at Austin - 6:00 AM"),
      Booking("b2", TRUE, "Tue Jan 3 - Tread 50 at Austin - 7:00 AM"),
      Booking("b3", FALSE, "Mon Jan 2 - Orange 60 at Austin - 6:00 AM") }

CLIClasses ==
    { StudioClass("k1", FALSE, 5, "Mon Jan 2", "Orange 60  6:00 AM  7:00 AM  Austin"),
      StudioClass("k2", FALSE, 0, "Mon Jan 2", "Tread 50  7:00 AM  8:00 AM  Austin"),
      StudioClass("k3", TRUE, 5, "Tue Jan 3", "Strength 50  8:00 AM  9:00 AM  Austin"),
      StudioClass("k4", FALSE, -1, "Tue Jan 3", "Orange 60  6:00 AM  7:00 AM  Austin") }

CLIStudios == {Studio("s1"), Studio("s2")}

\* a response body that holds the list xs under its items
ListBody(xs) ==
    [gz |-> FALSE, json |-> TRUE, text |-> "{\"items\":[..]}", IdToken |-> "",
     items |-> "list", studios |-> "absent", list |-> xs]

\* a response body that holds the list xs under data.studios
StudiosListBody(xs) ==
    [gz |-> FALSE, json |-> TRUE, text |-> "{\"data\":{\"studios\":[..]}}",
     IdToken |-> "", items |-> "absent", studios |-> "list", list |-> xs]

\* answers to the auth request of a command
CLIAuthAnswers == {a \in AuthAnswers : ~a.closeErr /\ a.status \in {0, 200}}

\* answers to the request that fetches a list of things
CLIFetchAnswers(things) ==
    Failures
        \cup Responses({500}, {b \in TextBodies : ~b.gz}, {""}, {NoFault})
        \cup Responses({200}, {ListBody(xs) : xs \in SeqsUpTo(things, MaxFetched)},
                       {""}, {NoFault})

\* answers to the request of configure studios
CLIStudiosAnswers ==
    Failures
        \cup Responses({500}, {b \in TextBodies : ~b.gz}, {""}, {NoFault})
        \cup Responses({200}, {StudiosListBody(xs) : xs \in SeqsUpTo(CLIStudios, MaxFetched)},
                       {""}, {NoFault})

\* answers to the booking request and to the cancel request of a command
CLIBookAnswers ==
    Failures \cup Responses({201, 409}, {b \in TextBodies : ~b.gz}, {""}, {NoFault})
CLICancelAnswers ==
    Failures \cup Responses({200, 409}, {b \in TextBodies : ~b.gz}, {""}, {NoFault})

\* the events of a run, in order: the calls of the client (with the number
\* of requests they sent), the request to ip-api.com, and the prompts
CallEvent(op, o, arg) ==
    [kind |-> "call", name |-> op, ok |-> (o.err = NoErr), sent |-> Len(o.sent),
     arg |-> arg]
AskEvent(prompt, answer) ==
    [kind |-> "ask", name |-> prompt, ok |-> TRUE, sent |-> 0, arg |-> answer]
HTTPEvent(name, ok) ==
    [kind |-> "http", name |-> name, ok |-> ok, sent |-> 1, arg |-> ""]

\* the user interrupts a prompt: survey.AskOne returns an error
Interrupt == "<interrupt>"
Confirmations == {"yes", "no", Interrupt}

JustView == "Just view bookings (no action)"
SystemLocal == "System Local Timezone"
Header(day) == "=== " \o day \o " ==="

NoSelection == [ID |-> ""]

\* a position that goes on after an error
AfterCallIgnoringError(err, next) == next

\* if err != nil { log.Fatalf(...) }
AfterCall(err, next) == IF err # NoErr THEN "fatal" ELSE next

\* a list of bookings that keeps the canceled ones
ActiveBookingsAll(bookings) == bookings

\* the bookings offered for cancellation: those not canceled
ActiveBookings(bookings) ==
    SelectSeq(bookings, LAMBDA b : ~b.Canceled)

\* the classes that get an option line: those not canceled
OfferedClasses(items) ==
    SelectSeq(items, LAMBDA k : ~k.Canceled)

\* bookingOptions
BookingOptions(active) ==
    [i \in 1..Len(active) |-> active[i].display] \o <<JustView>>

\* classOptions: a header line when the day changes, then the option line
RECURSIVE ClassOptionsFrom(_, _, _)
ClassOptionsFrom(items, i, lastDay) ==
    IF i > Len(items)
    THEN << >>
    ELSE IF items[i].Canceled
    THEN ClassOptionsFrom(items, i + 1, lastDay)
    ELSE (IF items[i].day # lastDay THEN <<Header(items[i].day)>> ELSE << >>)
             \o <<items[i].display>>
             \o ClassOptionsFrom(items, i + 1, items[i].day)

ClassOptions(items) == ClassOptionsFrom(items, 1, "")

\* bookingMap and classMap: the entry of an option line is the last thing
\* of the list that was stored under it
InMap(things, line) == \E i \in 1..Len(things) : things[i].display = line
MapEntry(things, line) ==
    LET i == CHOOSE j \in 1..Len(things) :
                 /\ things[j].display = line
                 /\ \A k \in (j + 1)..Len(things) : things[k].display # line
    IN things[i]

\* a waitlist test that takes a class without a free place for bookable
NeedsWaitlistBelowZero(class) == class.BookingCapacity < 0

\* needsWaitlist := selectedClass.BookingCapacity <= 0
NeedsWaitlist(class) == class.BookingCapacity <= 0

\* the elements of a sequence
Range(s) == {s[i] : i \in 1..Len(s)}

CLICommands == {"configure studios", "configure timezone", "bookings list",
                "bookings cancel", "schedules"}

\* the environment of a run: the .env file loads and holds the three URLs,
\* it loads and the auth URL is empty, or it does not load
EnvWith(loads, auth) ==
    Env(loads,
        [k \in EnvKeys |-> IF k = "OTF_AUTH_URL" THEN auth ELSE GoodURL],
        [k \in EnvKeys |-> Unset])
CLIEnvs == {EnvWith(TRUE, GoodURL), EnvWith(TRUE, ""), EnvWith(FALSE, GoodURL)}

\* --studio-ids after strings.Split(studioIDs, ","); << >> is the flag that
\* was not given (Split of a non-empty string has at least one element)
CLIFlags == {<< >>, <<"s1", "s2">>}

CLIFileSystems ==
    { FileSystem("ok", "ok", f) :
        f \in {MissingFile, UnreadableFile, ConfigFile("json", << >>, ""),
               ConfigFile("json", <<"s1">>, "America/Chicago")} }
        \cup {FileSystem("err", "ok", MissingFile)}

Run(cmd, creds, env, flag, fs, arg) ==
    [cmd |-> cmd, pc |-> "start", creds |-> creds, env |-> env, flag |-> flag,
     fs |-> fs, arg |-> arg, ids |-> << >>, xyz |-> << >>, fetched |-> << >>,
     options |-> << >>, selected |-> NoSelection, events |-> << >>]

\* the runs: the flag counts for schedules, the configuration file for
\* schedules and configure, the argument for bookings cancel
Runs ==
    UNION { { Run(cmd, creds, env, flag, fs, arg) :
                creds \in BOOLEAN, env \in CLIEnvs,
                flag \in (IF cmd = "schedules" THEN CLIFlags ELSE {<< >>}),
                fs \in (IF cmd \in {"schedules", "configure studios", "configure timezone"}
                        THEN CLIFileSystems
                        ELSE {FileSystem("ok", "ok", MissingFile)}),
                arg \in (IF cmd = "bookings cancel" THEN {"b9"} ELSE {""}) } :
            cmd \in CLICommands }

\* the studio IDs of the schedules command: the flag, or the preferred
\* studios of the configuration file; fatal when there are none
StudioIDsToFetch(flag, fs) ==
    IF flag # << >>
    THEN [fatal |-> FALSE, ids |-> flag]
    ELSE LET r == loadConfig(fs)
         IN IF r.err # NoErr \/ r.config.PreferredStudioIDs = << >>
            THEN [fatal |-> TRUE, ids |-> << >>]
            ELSE [fatal |-> FALSE, ids |-> r.config.PreferredStudioIDs]

\* the configuration a command goes on with when loadConfig fails
ConfigOrEmpty(fs) ==
    LET r == loadConfig(fs)
    IN IF r.err # NoErr THEN EmptyConfig ELSE r.config

\* the options of the timezone prompt (two of the built-in zones)
TimezoneOptions(config) ==
    LET builtin == <<"America/New_York", "America/Chicago">>
    IN (IF config.Timezone # "" /\ config.Timezone \notin Range(builtin)
        THEN Append(builtin, config.Timezone)
        ELSE builtin) \o <<SystemLocal>>

\* the position after Authenticate returned nil
AfterAuth(cmd) ==
    CASE cmd = "configure studios" -> "locate"
      [] cmd = "bookings cancel" -> "confirm"
      [] OTHER -> "fetch"

Ended(run) == [run EXCEPT !.pc = "fatal"]

\* main and the head of a command: the .env file, the credentials, the
\* studio IDs of schedules, and NewClient
CLIStart ==
    /\ cli.pc = "start"
    /\ IF ~cli.env.loads
       THEN cli' = Ended(cli) /\ c' = c
       ELSE IF cli.cmd = "configure timezone"
       THEN /\ cli' = [cli EXCEPT !.pc = "configure",
                                  !.options = TimezoneOptions(ConfigOrEmpty(cli.fs))]
            /\ c' = c
       ELSE IF ~cli.creds
       THEN cli' = Ended(cli) /\ c' = c
       ELSE LET r == IF cli.cmd = "schedules"
                     THEN StudioIDsToFetch(cli.flag, cli.fs)
                     ELSE [fatal |-> FALSE, ids |-> << >>]
                n == NewClientIn(cli.env)
                e == CallEvent("NewClient", [err |-> n.err, sent |-> << >>], "")
            IN IF r.fatal
               THEN cli' = Ended(cli) /\ c' = c
               ELSE IF n.fatal
               THEN cli' = Ended(cli) /\ c' = c
               ELSE /\ cli' = [cli EXCEPT !.pc = AfterCall(n.err, "auth"),
                                          !.ids = r.ids,
                                          !.events = Append(@, e)]
                    /\ c' = IF n.err = NoErr THEN n.client ELSE c
    /\ UNCHANGED <<last, authTok, ct, procs>>

\* apiClient.Authenticate(ctx, username, password)
CLIAuthenticate ==
    /\ cli.pc = "auth"
    /\ \E ans \in CLIAuthAnswers :
          LET o == AuthenticateCall(c, "alice", "pw", ans)
          IN /\ c' = o.c
             /\ cli' = [cli EXCEPT !.pc = AfterCall(o.err, AfterAuth(cli.cmd)),
                                   !.events = Append(@, CallEvent("Authenticate", o, ""))]
    /\ UNCHANGED <<last, authTok, ct, procs>>

\* configure studios: the request to ip-api.com, the prompts for latitude
\* and longitude when it gave no location, and the prompt for the distance
CLILocate ==
    /\ cli.pc = "locate"
    /\ \E detected \in BOOLEAN, answers \in {"numbers", "no numbers", Interrupt},
          xyz \in Coordinates :
          cli' = [cli EXCEPT !.pc = IF answers = "numbers" THEN "fetch" ELSE "fatal",
                             !.xyz = IF answers = "numbers" THEN xyz ELSE << >>,
                             !.events = Append(@, HTTPEvent("ip-api.com", detected))]
    /\ UNCHANGED <<c, last, authTok, ct, procs>>

\* the position and the options after a list was fetched
Fetched(run, o, options, next) ==
    [run EXCEPT !.pc = IF o.err # NoErr THEN AfterCall(o.err, next)
                       ELSE IF Len(o.result.items) = 0 \/ Len(options) = 0 THEN "done"
                       ELSE AfterCall(o.err, next),
                !.fetched = o.result.items,
                !.options = IF o.err = NoErr THEN options ELSE << >>]

\* bookings list: GetBookings and the options of the selection
CLIFetchBookings ==
    /\ cli.pc = "fetch"
    /\ cli.cmd = "bookings list"
    /\ \E ans \in CLIFetchAnswers(CLIBookings) :
          LET o == GetBookings(c, "2025-09-01T00:00:00Z", "2025-10-31T00:00:00Z", TRUE, ans)
              active == ActiveBookings(o.result.items)
              options == IF Len(active) = 0 THEN << >> ELSE BookingOptions(active)
              r == Fetched(cli, o, options, "select")
          IN /\ c' = o.c
             /\ cli' = [r EXCEPT !.events = Append(@, CallEvent("GetBookings", o, ""))]
    /\ UNCHANGED <<last, authTok, ct, procs>>

\* schedules: GetStudiosSchedules and the options of the selection
CLIFetchSchedules ==
    /\ cli.pc = "fetch"
    /\ cli.cmd = "schedules"
    /\ \E ans \in CLIFetchAnswers(CLIClasses) :
          LET o == GetStudiosSchedules(c, cli.ids, ans)
              r == Fetched(cli, o, ClassOptions(o.result.items), "select")
          IN /\ c' = o.c
             /\ cli' = [r EXCEPT !.events = Append(@, CallEvent("GetStudiosSchedules", o, cli.ids))]
    /\ UNCHANGED <<last, authTok, ct, procs>>

\* configure studios: ListStudios and the options of the selection
CLIFetchStudios ==
    /\ cli.pc = "fetch"
    /\ cli.cmd = "configure studios"
    /\ \E ans \in CLIStudiosAnswers :
          LET o == ListStudios(c, cli.xyz[1], cli.xyz[2], cli.xyz[3], ans)
              options == [i \in 1..Len(o.result.items) |-> o.result.items[i].display]
              r == Fetched(cli, o, options, "configure")
          IN /\ c' = o.c
             /\ cli' = [r EXCEPT !.events = Append(@, CallEvent("ListStudios", o, cli.xyz))]
    /\ UNCHANGED <<last, authTok, ct, procs>>

\* the things that have an entry in bookingMap or classMap
Selectable(run) ==
    IF run.cmd = "bookings list"
    THEN ActiveBookings(run.fetched)
    ELSE OfferedClasses(run.fetched)

\* the selection prompt of bookings list and of schedules
CLISelect ==
    /\ cli.pc = "select"
    /\ \E choice \in Range(cli.options) \cup {Interrupt} :
          LET e == AskEvent("select", choice)
          IN IF choice = Interrupt
             THEN cli' = Ended(cli)
             ELSE IF cli.cmd = "bookings list" /\ choice = JustView
             THEN cli' = [cli EXCEPT !.pc = "done", !.events = Append(@, e)]
             ELSE IF ~InMap(Selectable(cli), choice)
             THEN cli' = [cli EXCEPT !.pc = "fatal", !.events = Append(@, e)]
             ELSE cli' = [cli EXCEPT !.pc = "confirm",
                                     !.selected = MapEntry(Selectable(cli), choice),
                                     !.events = Append(@, e)]
    /\ UNCHANGED <<c, last, authTok, ct, procs>>

\* the position after the user said yes
AfterYes(run) ==
    IF run.cmd = "schedules"
    THEN IF NeedsWaitlist(run.selected) THEN "waitlist" ELSE "book"
    ELSE "cancel"

\* the confirmation prompt: cancel this booking, book this class
CLIConfirm ==
    /\ cli.pc = "confirm"
    /\ \E answer \in Confirmations :
          IF answer = Interrupt
          THEN cli' = Ended(cli)
          ELSE cli' = [cli EXCEPT !.pc = IF answer = "yes" THEN AfterYes(cli) ELSE "done",
                                  !.events = Append(@, AskEvent("confirm", answer))]
    /\ UNCHANGED <<c, last, authTok, ct, procs>>

\* the waitlist prompt of a class that is full
CLIWaitlist ==
    /\ cli.pc = "waitlist"
    /\ \E answer \in Confirmations :
          IF answer = Interrupt
          THEN cli' = Ended(cli)
          ELSE cli' = [cli EXCEPT !.pc = IF answer = "yes" THEN "book" ELSE "done",
                                  !.events = Append(@, AskEvent("waitlist", answer))]
    /\ UNCHANGED <<c, last, authTok, ct, procs>>

\* schedules: apiClient.BookClass(ctx, bookingReq)
CLIBook ==
    /\ cli.pc = "book"
    /\ \E ans \in CLIBookAnswers :
          LET bookingReq == [marshals |-> TRUE, classId |-> cli.selected.ID,
                             confirmed |-> FALSE,
                             waitlist |-> NeedsWaitlist(cli.selected)]
              o == BookClass(c, bookingReq, ans)
          IN /\ c' = o.c
             /\ cli' = [cli EXCEPT !.pc = AfterCall(o.err, "done"),
                                   !.events = Append(@, CallEvent("BookClass", o, bookingReq))]
    /\ UNCHANGED <<last, authTok, ct, procs>>

\* bookings list and bookings cancel: apiClient.CancelBooking(ctx, id)
CLICancel ==
    /\ cli.pc = "cancel"
    /\ \E ans \in CLICancelAnswers :
          LET bookingID == IF cli.cmd = "bookings list" THEN cli.selected.ID ELSE cli.arg
              o == CancelBooking(c, bookingID, ans)
          IN /\ c' = o.c
             /\ cli' = [cli EXCEPT !.pc = AfterCall(o.err, "done"),
                                   !.events = Append(@, CallEvent("CancelBooking", o, bookingID))]
    /\ UNCHANGED <<last, authTok, ct, procs>>

\* saveConfig: the path, then os.WriteFile, which succeeds or fails
saveConfig(fs, config, written) ==
    IF getConfigPath(fs).err # NoErr
    THEN [fs |-> fs, err |-> getConfigPath(fs).err]
    ELSE IF ~written
    THEN [fs |-> fs, err |-> Err("failed to write config file", "write")]
    ELSE [fs |-> [fs EXCEPT !.file = ConfigFile("json", config.PreferredStudioIDs,
                                                  config.Timezone)],
          err |-> NoErr]

\* selectedStudioIDs: for each ticked line, in the order of the lines, the
\* studioMap entry of the line (the last studio listed under that line)
RECURSIVE SelectedIDs(_, _, _)
SelectedIDs(studios, ticked, i) ==
    IF i > Len(studios)
    THEN << >>
    ELSE (IF i \in ticked
          THEN <<MapEntry(studios, studios[i].display).ID>>
          ELSE << >>)
             \o SelectedIDs(studios, ticked, i + 1)

\* configure studios and configure timezone: the selection, then loadConfig
\* and saveConfig
CLIConfigure ==
    /\ cli.pc = "configure"
    /\ \E written \in BOOLEAN, interrupted \in BOOLEAN :
          IF interrupted
          THEN cli' = Ended(cli)
          ELSE \E ticked \in (IF cli.cmd = "configure studios"
                              THEN SUBSET (1..Len(cli.options))
                              ELSE {{n} : n \in 1..Len(cli.options)}) :
                  LET old == ConfigOrEmpty(cli.fs)
                      line == cli.options[CHOOSE n \in ticked : TRUE]
                      new == IF cli.cmd = "configure studios"
                             THEN [old EXCEPT !.PreferredStudioIDs =
                                                  SelectedIDs(cli.fetched, ticked, 1)]
                             ELSE [old EXCEPT !.Timezone =
                                                  IF line = SystemLocal THEN ""
                                                  ELSE line]
                      s == saveConfig(cli.fs, new, written)
                  IN cli' = [cli EXCEPT !.pc = AfterCall(s.err, "done"), !.fs = s.fs]
    /\ UNCHANGED <<c, last, authTok, ct, procs>>

InitCLI ==
    /\ cli \in Runs
    /\ c = NoClient
    /\ last = NoCall
    /\ authTok = << >>
    /\ ct = NoChain
    /\ procs = NoProcs

NextCLI ==
    \/ CLIStart
    \/ CLIAuthenticate
    \/ CLILocate
    \/ CLIFetchBookings
    \/ CLIFetchSchedules
    \/ CLIFetchStudios
    \/ CLISelect
    \/ CLIConfirm
    \/ CLIWaitlist
    \/ CLIBook
    \/ CLICancel
    \/ CLIConfigure

SpecCLI == InitCLI /\ [][NextCLI]_vars

(***************************************************************************)
(* Two goroutines that call Authenticate on one client.  Authenticate      *)
(* takes no lock: NeedAuth reads c.Token, c.HTTPClient.Do reads the        *)
(* Transport field, and the two assignments write the two words of the     *)
(* string and the two words of the interface value, each word on its own.  *)
(***************************************************************************)
Goroutines == {1, 2}

NilWord == "nil"

\* the data word of an interface value: nil, or the chain built for a token
NilData == [set |-> FALSE, token |-> ""]
ChainData(token) == [set |-> TRUE, token |-> token]

\* the words of c.Token (data pointer, length) and of
\* c.HTTPClient.Transport (type word, data word)
Memory(tokPtr, tokLen, rtTab, rtData) ==
    [tokPtr |-> tokPtr, tokLen |-> tokLen, rtTab |-> rtTab, rtData |-> rtData]

\* the client NewClient returns: the empty string and the nil interface
EmptyMemory == Memory(NilWord, 0, NilWord, NilData)

\* the words of a token: the tokens that are not empty have four bytes
TokenLen == 4
TokenWords(token) ==
    IF token = ""
    THEN [tokPtr |-> NilWord, tokLen |-> 0]
    ELSE [tokPtr |-> token, tokLen |-> TokenLen]

\* a string, and an interface value, whose words come from two different
\* writes and do not fit
Torn == "<torn>"
TornRT == [kind |-> "torn"]

\* the string the two words of c.Token denote
StringOf(mem) ==
    IF mem.tokLen = 0 THEN ""
    ELSE IF mem.tokPtr = NilWord THEN Torn
    ELSE mem.tokPtr

\* the RoundTripper the two words of the Transport field denote: nil while
\* the type word is nil
RoundTripperOf(mem) ==
    IF mem.rtTab = NilWord THEN NilRT
    ELSE IF mem.rtData = NilData THEN TornRT
    ELSE AuthTransport(mem.rtData.token)

\* the client as the memory shows it
ClientOf(cl, mem) ==
    [cl EXCEPT !.Token = StringOf(mem), !.Transport = RoundTripperOf(mem)]

\* a goroutine in Authenticate: its position, the token NeedAuth read, the
\* requests it sent, the token it decoded, the words it has still to write
Goroutine(pc, read, sent, token, todo) ==
    [pc |-> pc, read |-> read, sent |-> sent, token |-> token, todo |-> todo]

NotRead == "<not read>"

\* answers to the auth requests of the goroutines
\* the final answers to the auth requests of the goroutines (the redirects
\* before them are steps of their own)
ConcurrentAnswers == {a \in AuthAnswers : ~a.closeErr /\ a.redirects = 0}

\* the write of one word by a goroutine that decoded token
WriteWord(mem, word, token) ==
    CASE word = "tokPtr" -> [mem EXCEPT !.tokPtr = TokenWords(token).tokPtr]
      [] word = "tokLen" -> [mem EXCEPT !.tokLen = TokenWords(token).tokLen]
      [] word = "rtTab" -> [mem EXCEPT !.rtTab = "internalRoundTripper"]
      [] word = "rtData" -> [mem EXCEPT !.rtData = ChainData(token)]

\* if c.NeedAuth()
GoNeedAuth ==
    \E i \in Goroutines :
        /\ procs.g[i].pc = "start"
        /\ procs' = [procs EXCEPT !.g[i].read = c.Token,
                                  !.g[i].pc = IF NeedAuth(c) THEN "send" ELSE "done"]
        /\ UNCHANGED <<c, last, authTok, ct, cli>>

\* the request and c.HTTPClient.Do(req) up to the wire: Do reads the
\* Transport field and hands the request to the transport, then the call
\* waits for the response; a Transport field that holds the type word
\* without the data word makes the call panic
GoSend ==
    \E i \in Goroutines :
        /\ procs.g[i].pc = "send"
        /\ IF ~URLParses(c.AuthURL)
           THEN procs' = [procs EXCEPT !.g[i].pc = "done"]
           ELSE IF c.Transport = TornRT
           THEN procs' = [procs EXCEPT !.g = [j \in Goroutines |->
                                                [procs.g[j] EXCEPT !.pc = "panic"]]]
           ELSE LET wire == RoundTrip(TransportOf(c), AuthRequest(c, "alice", "pw")).wire
                IN procs' = [procs EXCEPT
                       !.wire = Append(@, wire),
                       !.g[i].sent = @ + 1,
                       !.g[i].pc = "wait"]
        /\ UNCHANGED <<c, last, authTok, ct, cli>>

\* the answer is a redirect: Do reads the Transport field again and hands
\* the follow-up request to the transport, then the call waits again
GoRedirect ==
    \E i \in Goroutines :
        /\ procs.g[i].pc = "wait"
        /\ procs.g[i].sent <= MaxRedirects
        /\ IF c.Transport = TornRT
           THEN procs' = [procs EXCEPT !.g = [j \in Goroutines |->
                                                [procs.g[j] EXCEPT !.pc = "panic"]]]
           ELSE LET wire == RoundTrip(TransportOf(c),
                                      NthRequest(AuthRequest(c, "alice", "pw"),
                                                 procs.g[i].sent)).wire
                IN procs' = [procs EXCEPT
                       !.wire = Append(@, wire),
                       !.g[i].sent = @ + 1]
        /\ UNCHANGED <<c, last, authTok, ct, cli>>

\* Do returns with the final answer and the response is decoded; on an
\* error the call returns
GoReceive ==
    \E i \in Goroutines, ans \in ConcurrentAnswers :
        /\ procs.g[i].pc = "wait"
        /\ LET res == Uncompress(DefaultTransport, AuthRequest(c, "alice", "pw"), ans)
           IN procs' = [procs EXCEPT
                  !.g[i].token = IF SendFailed(ans) \/ ~Decodes(res)
                                 THEN @ ELSE res.body.IdToken,
                  !.g[i].todo = IF SendFailed(ans) \/ ~Decodes(res)
                                THEN @ ELSE {"tokPtr", "tokLen"},
                  !.g[i].pc = IF SendFailed(ans) \/ ~Decodes(res)
                              THEN "done" ELSE "token"]
        /\ UNCHANGED <<c, last, authTok, ct, cli>>

\* c.Token = token: the two words, in the order the build stores them
GoWriteToken ==
    \E i \in Goroutines :
        /\ procs.g[i].pc = "token"
        /\ \E word \in procs.g[i].todo :
              LET mem == WriteWord(procs.mem, word, procs.g[i].token)
                  rest == procs.g[i].todo \ {word}
              IN /\ procs' = [procs EXCEPT
                        !.mem = mem,
                        !.g[i].todo = IF rest = {} THEN {"rtTab", "rtData"} ELSE rest,
                        !.g[i].pc = IF rest = {} THEN "transport" ELSE "token"]
                 /\ c' = ClientOf(c, mem)
        /\ UNCHANGED <<last, authTok, ct, cli>>

\* c.HTTPClient.Transport = Chain(...): the two words; then the deferred
\* close and the return
GoWriteTransport ==
    \E i \in Goroutines :
        /\ procs.g[i].pc = "transport"
        /\ \E word \in procs.g[i].todo :
              LET mem == WriteWord(procs.mem, word, procs.g[i].token)
                  rest == procs.g[i].todo \ {word}
              IN /\ procs' = [procs EXCEPT
                        !.mem = mem,
                        !.g[i].todo = rest,
                        !.g[i].pc = IF rest = {} THEN "done" ELSE "transport"]
                 /\ c' = ClientOf(c, mem)
        /\ UNCHANGED <<last, authTok, ct, cli>>

InitConcurrent ==
    /\ c = NoClient
    /\ last = NoCall
    /\ authTok = << >>
    /\ ct = NoChain
    /\ cli = NoRun
    /\ procs = [mem |-> EmptyMemory, wire |-> << >>,
                g |-> [i \in Goroutines |-> Goroutine("start", NotRead, 0, "", {})]]

NextConcurrent ==
    \/ GoNeedAuth
    \/ GoSend
    \/ GoRedirect
    \/ GoReceive
    \/ GoWriteToken
    \/ GoWriteTransport

SpecConcurrent == InitConcurrent /\ [][NextConcurrent]_vars

(***************************************************************************)
(* Properties of Chain and AddHeader, under SpecChain.                     *)
(***************************************************************************)
Reverse(s) == [i \in 1..Len(s) |-> s[Len(s) + 1 - i]]

Permute(s, p) == [i \in 1..Len(s) |-> s[p[i]]]
PermutationsOf(n) == {p \in [1..n -> 1..n] : \A i, j \in 1..n : p[i] = p[j] => i = j}

DistinctKeys(mws) ==
    \A i, j \in 1..Len(mws) : mws[i].key = mws[j].key => i = j

\* the request at the base transport carries every middleware's header
CarriesAll(wire, mws) ==
    /\ wire.hasHeader
    /\ \A i \in 1..Len(mws) :
          /\ mws[i].key \in DOMAIN wire.header
          /\ wire.header[mws[i].key] = mws[i].value

\* positions i < j are the only two middleware of the list that target
\* their key, and their values differ
SameKeyPair(mws, i, j) ==
    /\ i < j
    /\ mws[i].key = mws[j].key
    /\ mws[i].value # mws[j].value
    /\ \A k \in 1..Len(mws) : mws[k].key = mws[i].key => k \in {i, j}

\* C7, as claimed: the header mutations of Chain(base, m1, ..., mN) run in
\* list order, m1 first and mN last (mN closest to the base transport).
C7_ListOrder ==
    ct.sent => ct.log = ct.mws

\* C7, amended: the header mutations run in reverse list order: mN, the
\* outermost wrapper, runs first and m1 runs last, closest to the base
\* transport.
C7_ReverseListOrder ==
    ct.sent => ct.log = Reverse(ct.mws)

C7_Witness ==
    /\ ct.sent
    /\ Len(ct.mws) = 3
    /\ ct.mws[1] # ct.mws[3]
    /\ ct.log[1] = ct.mws[3]
    /\ ct.log[3] = ct.mws[1]

\* C8, as claimed: for a chain of AddHeader middleware with pairwise
\* distinct keys, every request reaches the base transport with all N
\* headers at their configured values, and so it does for every
\* permutation of the middleware list.
C8_AllHeadersAnyOrder ==
    (ct.sent /\ DistinctKeys(ct.mws)) =>
        /\ CarriesAll(ct.wire, ct.mws)
        /\ \A p \in PermutationsOf(Len(ct.mws)) :
              CarriesAll(RoundTrip(Chain(ct.base, Permute(ct.mws, p)), ct.req).wire,
                         ct.mws)

\* C9, as claimed: of two middleware of one Chain call that set the same key
\* to different values, the later one in the argument list decides the value
\* the request carries at the base transport.
C9_LaterWins ==
    (ct.sent /\ ct.req.hasHeader) =>
        \A i, j \in 1..Len(ct.mws) :
            SameKeyPair(ct.mws, i, j) => ct.wire.header[ct.mws[i].key] = ct.mws[j].value

\* C9, amended: of two middleware of one Chain call that set the same key to
\* different values, the earlier one in the argument list decides the value
\* the request (one that has a header map) carries at the base transport: it
\* is the innermost wrapper and writes last.
C9_EarlierWins ==
    (ct.sent /\ ct.req.hasHeader) =>
        \A i, j \in 1..Len(ct.mws) :
            SameKeyPair(ct.mws, i, j) => ct.wire.header[ct.mws[i].key] = ct.mws[i].value

C9_Witness ==
    /\ ct.sent
    /\ ct.req.hasHeader
    /\ Len(ct.mws) = 2
    /\ SameKeyPair(ct.mws, 1, 2)
    /\ ct.wire.header[ct.mws[1].key] = ct.mws[1].value

(***************************************************************************)
(* Properties of the client, under Spec.                                   *)
(***************************************************************************)
\* the request the last call handed to the base transport
Wire == last.sent[1]

LastIs(op) == last.op = op
LastSent == last.op # "none" /\ last.sent # << >>

\* the last call was an Authenticate that changed nothing and sent nothing
AuthenticateWasNoOp ==
    /\ last.sent = << >>
    /\ last.err = NoErr
    /\ c.Token = last.before.Token
    /\ c.Transport = last.before.Transport

\* C1, as claimed: after an Authenticate call that returned nil, whatever the
\* auth endpoint answered, NeedAuth() is false (the token is non-empty).
C1_NilMeansAuthenticated ==
    (LastIs("Authenticate") /\ last.err = NoErr) => ~NeedAuth(c)

\* C2: an Authenticate call made while the token is non-empty sends no
\* request, returns nil and leaves Token and Transport as they were; so
\* every Authenticate call that follows one which returned nil with a token
\* is such a no-op.
C2_AuthenticateNoOpOnceTokenSet ==
    [][ ( /\ last'.op = "Authenticate"
          /\ \/ c.Token # ""
             \/ (authTok # << >> /\ authTok[1] # "") )
        => /\ last'.sent = << >>
           /\ last'.err = NoErr
           /\ c'.Token = c.Token
           /\ c'.Transport = c.Transport ]_vars

C2_Witness ==
    /\ LastIs("Authenticate")
    /\ last.before.Token = "tokA"
    /\ authTok = <<"tokA">>
    /\ last.args[1] = "bob"
    /\ last.ans.net = "resp"
    /\ last.ans.body.IdToken = "tokB"
    /\ AuthenticateWasNoOp

\* C3, as claimed: Authenticate returns a non-nil error when the send fails,
\* when the body is no decodable JSON, and when the body is JSON that lacks
\* AuthenticationResult.IdToken.
C3_AuthFailuresReturnError ==
    (LastIs("Authenticate") /\ LastSent) =>
        ( ( \/ last.ans.net # "resp"
            \/ ~Decodes(last.ans)
            \/ last.ans.body.IdToken = "" )
          => last.err # NoErr )

\* C4: once Authenticate has returned nil, every request a resource
\* operation sends reaches the base transport with Authorization equal to
\* "Bearer " followed by the client's token (the token T of that
\* Authenticate whenever T is non-empty) and with Content-Type
\* application/json, whatever headers the operation set itself.
C4_BearerOnEveryRequest ==
    (last.op \in ResourceOps /\ LastSent /\ authTok # << >>) =>
        /\ Wire.hasHeader
        /\ {"Authorization", "Content-Type"} \subseteq DOMAIN Wire.header
        /\ Wire.header["Authorization"] = "Bearer " \o c.Token
        /\ authTok[1] # "" => Wire.header["Authorization"] = "Bearer " \o authTok[1]
        /\ Wire.header["Content-Type"] = "application/json"

C4_Witness ==
    /\ LastIs("BookClass")
    /\ LastSent
    /\ authTok = <<"tokA">>
    /\ Wire.header["Authorization"] = "Bearer tokA"
    /\ Wire.header["Content-Type"] = "application/json"
    /\ Wire.header["Accept-Encoding"] = "gzip"

\* C5: the token starts empty, and once it holds a non-empty value no
\* operation changes it: its value changes at most once.
C5_TokenSetOnce ==
    /\ c.Token = ""
    /\ [][c.Token # "" => c'.Token = c.Token]_vars

C5_Witness ==
    /\ c.Token = "tokA"
    /\ LastIs("Authenticate")
    /\ last.before.Token = "tokA"
    /\ last.ans.net = "resp"
    /\ last.ans.body.IdToken = "tokB"
    /\ last.ans.status = 200

\* C6, as claimed: a resource operation called while the token is empty
\* sends no request, and no resource operation authenticates on its own.
C6_ResourceCallsNeedToken ==
    (last.op \in ResourceOps) =>
        /\ last.before.Token = "" => last.sent = << >>
        /\ c.Token = last.before.Token
        /\ \A i \in 1..Len(last.sent) : last.sent[i].method # "POST" \/ last.sent[i].path # ""

\* C10, as claimed: BookClass returns nil exactly for the responses whose
\* status code is 2xx.
C10_NilIffAny2xx ==
    (LastIs("BookClass") /\ last.ans.net = "resp" /\ LastSent) =>
        (last.err = NoErr <=> last.ans.status \in 200..299)

\* C10, amended: BookClass returns nil exactly for the responses whose
\* status code is 200 or 201, and a non-nil error for every other status
\* code, the other 2xx codes included.
C10_NilIff200Or201 ==
    (LastIs("BookClass") /\ last.ans.net = "resp" /\ LastSent) =>
        (last.err = NoErr <=> last.ans.status \in {200, 201})

C10_Witness ==
    /\ LastIs("BookClass")
    /\ LastSent
    /\ last.ans.net = "resp"
    /\ last.ans.status = 204
    /\ last.err # NoErr
    /\ last.err.status = 204

(***************************************************************************)
(* Properties of the errors the booking operations return, under Spec.     *)
(***************************************************************************)
\* the last call sent its request and the server answered it
Responded == LastSent /\ last.ans.net = "resp"

\* the error carries the status code and the body text
CarriesStatusAndBody(err, status, text) ==
    /\ err # NoErr
    /\ {"status", "body"} \subseteq DOMAIN err
    /\ err.status = status
    /\ err.body = text

\* the error carries the status code and a cause, and no body text
CarriesStatusAndCause(err, status, causes) ==
    /\ err # NoErr
    /\ {"status", "cause"} \subseteq DOMAIN err
    /\ "body" \notin DOMAIN err
    /\ err.status = status
    /\ err.cause \in causes

\* the body text of the answer, decompressed if and only if the answer
\* declares gzip in Content-Encoding
DeclaredText(ans) ==
    IF ans.encoding = "gzip" THEN ans.body.text ELSE RawText(ans.body)

\* the body can be read the way its Content-Encoding says
ReadsAsDeclared(ans) ==
    ~ans.readErr /\ (ans.encoding = "gzip" => ans.body.gz)

\* C11, as claimed: when BookClass receives a failure status, the error it
\* returns contains the status code and the response body text, the body
\* being gzip-decompressed first if and only if the response declares gzip.
C11_StatusAndBodyInError ==
    (LastIs("BookClass") /\ Responded /\ last.ans.status \notin 200..299) =>
        CarriesStatusAndBody(last.err, last.ans.status, DeclaredText(last.ans))

\* C11, amended: when BookClass receives a status other than 200 and 201,
\* the error it returns contains the status code; when the body can be read
\* (as a gzip stream if the response declares gzip) the error also contains
\* the body text, decompressed if and only if gzip is declared; when it
\* cannot, the error contains the status code and the failure, and no body.
C11_StatusAndBodyWhenReadable ==
    (LastIs("BookClass") /\ Responded /\ last.ans.status \notin {200, 201}) =>
        IF ReadsAsDeclared(last.ans)
        THEN CarriesStatusAndBody(last.err, last.ans.status, DeclaredText(last.ans))
        ELSE CarriesStatusAndCause(last.err, last.ans.status, {"gzip", "read"})

C11_Witness ==
    /\ LastIs("BookClass")
    /\ Responded
    /\ last.ans.status = 409
    /\ last.ans.encoding = "gzip"
    /\ last.ans.body.gz
    /\ RawText(last.ans.body) # "class full"
    /\ CarriesStatusAndBody(last.err, 409, "class full")

PlainError(err, causes) ==
    /\ err # NoErr
    /\ "status" \notin DOMAIN err
    /\ err.cause \in causes

\* C13, as claimed: GetBookings returns the status-plus-raw-body error exactly
\* for the non-2xx responses; for a 2xx response it returns the decoded items
\* with a nil error or, when the body does not decode, a decode error with a
\* nil list; it never returns a non-nil list together with a non-nil error.
C13_StatusErrorExactlyNon2xx ==
    (LastIs("GetBookings") /\ Responded) =>
        /\ last.ans.status \notin 200..299 <=>
              CarriesStatusAndBody(last.err, last.ans.status, RawText(last.ans.body))
        /\ last.ans.status \in 200..299 =>
              \/ last.err = NoErr /\ last.result = Items(last.ans.body)
              \/ PlainError(last.err, {"decode"}) /\ last.result.isNil
        /\ ~(last.err # NoErr /\ ~last.result.isNil)

\* C13, amended: GetBookings returns the status error exactly for the
\* responses whose status is not 200, the other 2xx codes included; the
\* error has the status code and the body text, which the transport has
\* gzip-decompressed if and only if the response declares gzip, or the read
\* failure when the body cannot be read; for a 200 response it returns the
\* decoded items with a nil error or, when the body cannot be read or does
\* not decode, a read or decode error with a nil list; it never returns a
\* non-nil list together with a non-nil error.
C13_StatusErrorExactlyNot200 ==
    (LastIs("GetBookings") /\ Responded) =>
        /\ last.ans.status # 200 <=>
              (last.err # NoErr /\ "status" \in DOMAIN last.err)
        /\ last.ans.status # 200 =>
              /\ last.result.isNil
              /\ IF ReadsAsDeclared(last.ans)
                 THEN CarriesStatusAndBody(last.err, last.ans.status, DeclaredText(last.ans))
                 ELSE CarriesStatusAndCause(last.err, last.ans.status, {"read"})
        /\ last.ans.status = 200 =>
              IF ~ReadsAsDeclared(last.ans)
              THEN PlainError(last.err, {"read"}) /\ last.result.isNil
              ELSE IF ~DecodeOK(last.ans.body)
              THEN PlainError(last.err, {"decode"}) /\ last.result.isNil
              ELSE last.err = NoErr /\ last.result = Items(last.ans.body)
        /\ ~(last.err # NoErr /\ ~last.result.isNil)

C13_Witness ==
    /\ LastIs("GetBookings")
    /\ Responded
    /\ last.ans.status = 204
    /\ DecodeOK(last.ans.body)
    /\ last.ans.body.items = "one"
    /\ CarriesStatusAndBody(last.err, 204, "{\"items\":[{\"id\":\"b1\"}]}")
    /\ last.result.isNil

(***************************************************************************)
(* Properties of the error taxonomy, under Spec.                           *)
(***************************************************************************)
\* C14, as claimed: GetStudiosSchedules and GetClassTypeFilter return a
\* non-nil error whenever the response status is non-2xx or the body fails
\* to decode, and whenever they return an error the result is the zero value.
C14_ScheduleErrorsAndZeroResults ==
    (last.op \in {"GetStudiosSchedules", "GetClassTypeFilter"} /\ Responded) =>
        /\ (last.ans.status \notin 200..299 \/ ~Decodes(last.ans)) => last.err # NoErr
        /\ last.err # NoErr => last.result = ZeroItems

\* the operations that decode the response body
DecodingOps == {"Authenticate", "ListStudios", "GetStudiosSchedules",
                "GetClassTypeFilter", "GetBookings"}

\* C15, as claimed: in every operation that decodes a response, a decode
\* error is produced only for a 2xx response, and a non-2xx response always
\* yields the error that carries the status code, never a decode error and
\* never a successful result.
C15_DecodeOnlyAfter2xx ==
    (last.op \in DecodingOps /\ Responded) =>
        /\ PlainError(last.err, {"decode"}) => last.ans.status \in 200..299
        /\ last.ans.status \notin 200..299 =>
              /\ last.err # NoErr
              /\ "status" \in DOMAIN last.err
              /\ last.err.status = last.ans.status

(***************************************************************************)
(* Properties of the request of ListStudios, under Spec.                   *)
(***************************************************************************)
ListStudiosOps == {"ListStudios", "ListStudiosPrinting"}

\* the value of the query parameter key
Param(query, key) ==
    LET i == CHOOSE j \in 1..Len(query) : query[j][1] = key
    IN query[i][2]

\* the decimal string s denotes the number v
Denotes(s, v) ==
    \/ s = toStringSixteen(v)
    \/ /\ v.tail = 0
       /\ s \in {ToString(v.whole), ToString(v.whole) \o ".0",
                 ToString(v.whole) \o ".000000000000000"}

\* the query the operation sends for the arguments xyz
QueryOf(op, cl, xyz, ans) ==
    IF op = "ListStudios"
    THEN ListStudios(cl, xyz[1], xyz[2], xyz[3], ans).sent[1].query
    ELSE ListStudiosPrinting(cl, xyz[1], xyz[2], xyz[3], ans).sent[1].query

\* C16, as claimed: ListStudios sends a GET to the studios path whose
\* latitude, longitude and distance parameters are the caller's values,
\* whatever they are, and a call with other arguments sends other parameters.
C16_CallerValuesOnTheWire ==
    (last.op \in ListStudiosOps /\ LastSent) =>
        /\ Wire.method = "GET"
        /\ Wire.path = "studios"
        /\ Denotes(Param(Wire.query, "latitude"), last.args[1])
        /\ Denotes(Param(Wire.query, "longitude"), last.args[2])
        /\ Denotes(Param(Wire.query, "distance"), last.args[3])
        /\ \A xyz \in Coordinates :
              xyz # last.args => QueryOf(last.op, last.before, xyz, last.ans) # Wire.query

(***************************************************************************)
(* Properties of every operation, under Spec.                              *)
(***************************************************************************)
\* the base URL the operation builds its request from
BaseOf(op, cl) ==
    CASE op = "Authenticate" -> cl.AuthURL
      [] op \in ListStudiosOps -> cl.BaseCOURL
      [] OTHER -> cl.BaseIOURL

\* the last call failed before it had a request to send
FailedBeforeSending ==
    \/ ~URLParses(BaseOf(last.op, last.before))
    \/ LastIs("BookClass") /\ ~last.args[1].marshals

\* the last call was an Authenticate that the NeedAuth guard skipped
SkippedByGuard == LastIs("Authenticate") /\ ~NeedAuth(last.before)

\* the final answer of the last call is a response with a failure status
FailureStatus(ans) == ans.net = "resp" /\ ans.status \notin 200..299

\* C17, as claimed: each operation issues exactly one request per call, and
\* none only when it fails before sending or when Authenticate is skipped
\* by the NeedAuth guard; after a transport error or a failure status it
\* returns the error and has issued no other request.
C17_OneRequestPerCall ==
    (last.op # "none") =>
        /\ Len(last.sent) \in {0, 1}
        /\ Len(last.sent) = 0 <=> (FailedBeforeSending \/ SkippedByGuard)
        /\ (LastSent /\ (SendFailed(last.ans) \/ FailureStatus(last.ans))) =>
              last.err # NoErr

\* the operation reads the body of this answer
ReadsBody(op, ans) ==
    CASE op = "BookClass" -> ans.status \notin {200, 201}
      [] op = "CancelBooking" -> ans.status \notin {200, 204}
      [] OTHER -> TRUE

\* the operation decodes the body of this answer
DecodesBody(op, ans) ==
    CASE op = "GetBookings" -> ans.status = 200
      [] OTHER -> op \in DecodingOps

\* the operation closes the body of the response
ClosesBody(op) == op # "ListStudiosPrinting"

\* a step of the last call failed: building the request, sending it,
\* reading the body, decoding it, or closing the body
StepFailed ==
    \/ FailedBeforeSending /\ ~SkippedByGuard
    \/ LastSent /\ SendFailed(last.ans)
    \/ Responded /\ ReadsBody(last.op, last.ans) /\ last.ans.readErr
    \/ Responded /\ DecodesBody(last.op, last.ans) /\ ~DecodeOK(last.ans.body)
    \/ Responded /\ ClosesBody(last.op) /\ last.ans.closeErr

\* C18, as claimed: no error is swallowed: whenever a step of an operation
\* fails (building the request, sending it, reading the body, decoding it,
\* closing the body) the operation returns a non-nil error.
C18_NoErrorSwallowed ==
    (last.op # "none" /\ StepFailed) => last.err # NoErr

\* the zero value of the result of the operation (nothing, for the
\* operations that return an error alone)
ZeroResultOf(op) ==
    IF op \in {"ListStudios", "GetStudiosSchedules", "GetClassTypeFilter", "GetBookings"}
    THEN ZeroItems
    ELSE NoResult

\* C19: when the context of an operation is cancelled before or during its
\* HTTP call, the operation returns a non-nil error derived from the
\* context and no result, and leaves the client (Token and Transport, for
\* Authenticate as for the others) as it was.
C19_CancelledContext ==
    (last.op # "none" /\ LastSent /\ last.ans.net = "ctxerr") =>
        /\ last.err # NoErr
        /\ "cause" \in DOMAIN last.err
        /\ last.err.cause = "ctxerr"
        /\ last.result = ZeroResultOf(last.op)
        /\ c.Token = last.before.Token
        /\ c.Transport = last.before.Transport

C19_Witness ==
    /\ LastIs("Authenticate")
    /\ LastSent
    /\ last.ans.net = "ctxerr"
    /\ last.err = Err("error authenticating", "ctxerr")
    /\ c.Token = ""
    /\ c.Transport = NilRT

(***************************************************************************)
(* Properties of the auth request, under Spec.                             *)
(***************************************************************************)
\* C20, as claimed: every auth request that Authenticate sends, in any
\* client state (after an earlier Authenticate that returned nil with an
\* empty token and installed the middleware included), reaches the wire as
\* one POST to the auth URL with Content-Type application/x-amz-json-1.1
\* and X-Amz-Target AWSCognitoIdentityProviderService.InitiateAuth.
C20_AuthRequestOnTheWire ==
    (LastIs("Authenticate") /\ LastSent) =>
        /\ Len(last.sent) = 1
        /\ Wire.method = "POST"
        /\ Wire.base = last.before.AuthURL
        /\ Wire.path = ""
        /\ Wire.hasHeader
        /\ {"Content-Type", "X-Amz-Target"} \subseteq DOMAIN Wire.header
        /\ Wire.header["Content-Type"] = "application/x-amz-json-1.1"
        /\ Wire.header["X-Amz-Target"] = "AWSCognitoIdentityProviderService.InitiateAuth"

(***************************************************************************)
(* Properties of AddHeader on any request, under SpecChain.                *)
(***************************************************************************)
\* the keys the middleware of the list set
KeysOf(mws) == {mws[i].key : i \in 1..Len(mws)}

\* C25, as claimed: an AddHeader(key, value) middleware sets key = value on
\* every request it handles, a request whose header map is nil included,
\* and leaves every other header of the request present and unchanged.
C25_AddHeaderOnEveryRequest ==
    (ct.sent /\ Len(ct.mws) >= 1) =>
        /\ ct.wire.hasHeader
        /\ \A i \in 1..Len(ct.mws) :
              /\ ct.mws[i].key \in DOMAIN ct.wire.header
              /\ \E j \in 1..Len(ct.mws) :
                    /\ ct.mws[j].key = ct.mws[i].key
                    /\ ct.wire.header[ct.mws[i].key] = ct.mws[j].value
        /\ \A k \in (DOMAIN ct.req.header) \ KeysOf(ct.mws) :
              /\ k \in DOMAIN ct.wire.header
              /\ ct.wire.header[k] = ct.req.header[k]

(***************************************************************************)
(* Properties of the client's state, under Spec.                           *)
(***************************************************************************)
\* the fields of the Client: three base URLs, the token, and the transport
\* of its HTTP client
ClientFields == {"BaseIOURL", "BaseCOURL", "AuthURL", "Token", "Transport"}

\* C26: the resource operations leave every field of the Client unchanged,
\* on success and on every error path, and the Client has no field that
\* records bookings.
C26_ResourceOpsLeaveClient ==
    /\ [](DOMAIN c = ClientFields)
    /\ [][last'.op \in ResourceOps => c' = c]_vars

C26_Witness ==
    /\ LastIs("CancelBooking")
    /\ Responded
    /\ last.ans.status = 409
    /\ last.err # NoErr
    /\ last.before.Token = "tokA"
    /\ c = last.before
    /\ c.Transport = AuthTransport("tokA")

\* C27, as claimed: whenever Authenticate returns a non-nil error (the
\* request cannot be built or sent, the body does not decode, or closing
\* the body fails) Token and Transport have the values they had before the
\* call, and NeedAuth() is still true.
C27_AuthenticateErrorLeavesClient ==
    (LastIs("Authenticate") /\ last.err # NoErr) =>
        /\ c.Token = last.before.Token
        /\ c.Transport = last.before.Transport
        /\ NeedAuth(c)

\* C28, as claimed: whenever a middleware chain is installed on the
\* transport, Token is non-empty and the chain is exactly the two AddHeader
\* middleware over the default transport that inject "Bearer " + Token; a
\* chain is never nested inside another.
C28_TransportAgreesWithToken ==
    (c.Transport # NilRT) =>
        /\ c.Token # ""
        /\ c.Transport =
              Wrap(AddHeader("Content-Type", "application/json"),
                   Wrap(AddHeader("Authorization", "Bearer " \o c.Token),
                        DefaultTransport))

(***************************************************************************)
(* Properties of NewClient, under SpecNewClient.                           *)
(***************************************************************************)
\* one of the three base URLs that NewClient reads is empty
SomeURLEmpty(env) == \E k \in EnvKeys : Getenv(env, k) = ""

\* NewClient returned a client
ReturnedClient == LastIs("NewClient") /\ ~last.fatal /\ ~last.isNil

\* C21, as claimed: NewClient returns a client only when the three base URLs
\* are non-empty; when one is empty it returns a nil client and an error; a
\* returned client starts with an empty token.
C21_ClientOnlyWithThreeURLs ==
    LastIs("NewClient") =>
        /\ ReturnedClient => ~SomeURLEmpty(last.env)
        /\ SomeURLEmpty(last.env) => (~last.fatal /\ last.isNil /\ last.err # NoErr)
        /\ ReturnedClient => (c.Token = "" /\ NeedAuth(c))

\* C21, amended: when the .env file loads, NewClient returns a client (with
\* a nil error, the three URLs it read, an empty token and no transport)
\* exactly when the three base URLs are non-empty, and a nil client and an
\* error when one is empty; when the .env file does not load it does not
\* return: the process exits, whatever the variables of the process are.
C21_ClientOnlyWithThreeURLsAndDotEnv ==
    LastIs("NewClient") =>
        /\ last.fatal <=> ~last.env.loads
        /\ last.fatal => last.isNil
        /\ ~last.fatal =>
              /\ ~last.isNil <=> ~SomeURLEmpty(last.env)
              /\ last.isNil <=> last.err # NoErr
        /\ ReturnedClient =>
              /\ c.Token = ""
              /\ NeedAuth(c)
              /\ c.Transport = NilRT
              /\ c.BaseIOURL = Getenv(last.env, "OTF_API_IO_BASE_URL")
              /\ c.BaseCOURL = Getenv(last.env, "OTF_API_CO_BASE_URL")
              /\ c.AuthURL = Getenv(last.env, "OTF_AUTH_URL")

C21_Witness ==
    /\ LastIs("NewClient")
    /\ last.env.loads
    /\ last.env.os["OTF_AUTH_URL"] = ""
    /\ last.env.file["OTF_AUTH_URL"] # Unset
    /\ last.env.os["OTF_API_IO_BASE_URL"] = GoodURL
    /\ last.env.os["OTF_API_CO_BASE_URL"] = Unset
    /\ last.env.file["OTF_API_CO_BASE_URL"] # Unset
    /\ last.isNil
    /\ last.err = Err("base urls not configured correctly", "config")

(***************************************************************************)
(* Properties of loadConfig, under SpecLoadConfig.                         *)
(***************************************************************************)
\* the configuration path can be determined
PathKnown(fs) == fs.configDir = "ok" /\ fs.mkdir = "ok"

\* the file exists and cannot be read, or cannot be parsed
FileUnusable(file) == file.kind \in {"unreadable", "garbage", "mistyped"}

\* C22: loadConfig treats a missing configuration file as an empty
\* configuration and returns no error; it returns an error only when the
\* file exists and cannot be read or parsed, or when the configuration path
\* cannot be determined, and in each of these cases it does.
C22_MissingFileIsEmptyConfig ==
    LastIs("loadConfig") =>
        /\ (PathKnown(last.fs) /\ last.fs.file.kind = "missing") =>
              (last.err = NoErr /\ last.config = EmptyConfig)
        /\ last.err # NoErr <=> (~PathKnown(last.fs) \/ FileUnusable(last.fs.file))
        /\ (PathKnown(last.fs) /\ last.fs.file.kind = "json") =>
              /\ last.config.PreferredStudioIDs = last.fs.file.ids
              /\ last.config.Timezone = last.fs.file.tz

C22_Witness ==
    /\ LastIs("loadConfig")
    /\ PathKnown(last.fs)
    /\ last.fs.file = MissingFile
    /\ last.err = NoErr
    /\ last.config = EmptyConfig

(***************************************************************************)
(* Properties of the commands, under SpecCLI.                              *)
(***************************************************************************)

Events == cli.events
Called(i, op) == Events[i].kind = "call" /\ Events[i].name = op
Answered(i, prompt, answer) ==
    /\ Events[i].kind = "ask"
    /\ Events[i].name = prompt
    /\ Events[i].arg = answer
AnsweredBefore(i, prompt, answer) ==
    \E j \in 1..(i - 1) : Answered(j, prompt, answer)

\* C23: in bookings list and bookings cancel, CancelBooking is called only
\* after the user answered the cancellation confirmation with yes; in
\* bookings list the booking cancelled is one of the fetched bookings whose
\* Canceled flag is false; after "Just view bookings" or a declined
\* confirmation there is no CancelBooking call.
C23_CancelOnlyAfterYes ==
    cli.cmd \in {"bookings list", "bookings cancel"} =>
        /\ \A i \in 1..Len(Events) :
              Called(i, "CancelBooking") =>
                  /\ AnsweredBefore(i, "confirm", "yes")
                  /\ cli.cmd = "bookings list" =>
                        \E k \in 1..Len(cli.fetched) :
                            /\ cli.fetched[k].ID = Events[i].arg
                            /\ ~cli.fetched[k].Canceled
                  /\ cli.cmd = "bookings cancel" => Events[i].arg = cli.arg
        /\ (\E j \in 1..Len(Events) :
                \/ Answered(j, "select", JustView)
                \/ Answered(j, "confirm", "no"))
              => \A i \in 1..Len(Events) : ~Called(i, "CancelBooking")

\* bookings list sent the cancel request of a booking that was fetched
\* together with a canceled one
C23_Witness ==
    /\ cli.cmd = "bookings list"
    /\ \E k \in 1..Len(cli.fetched) : cli.fetched[k].Canceled
    /\ \E i \in 1..Len(Events) :
          /\ Called(i, "CancelBooking")
          /\ Events[i].sent = 1
          /\ Events[i].arg = cli.selected.ID

IsHeader(line) == \E k \in CLIClasses : line = Header(k.day)

\* C24: in schedules, BookClass is called only after the user confirmed the
\* booking; the Waitlist flag of the request is true exactly when the
\* selected class has BookingCapacity <= 0, and for such a class the call
\* is made only after the user accepted the waitlist prompt.  Every option
\* line is a day header or the line of a fetched class that is not
\* canceled, and the selected class is never a canceled one.
C24_BookOnlyAfterYes ==
    cli.cmd = "schedules" =>
        /\ \A i \in 1..Len(Events) :
              Called(i, "BookClass") =>
                  /\ AnsweredBefore(i, "confirm", "yes")
                  /\ Events[i].arg.classId = cli.selected.ID
                  /\ Events[i].arg.waitlist <=> (cli.selected.BookingCapacity <= 0)
                  /\ cli.selected.BookingCapacity <= 0
                        => AnsweredBefore(i, "waitlist", "yes")
        /\ \A n \in 1..Len(cli.options) :
              \/ IsHeader(cli.options[n])
              \/ \E k \in 1..Len(cli.fetched) :
                    /\ cli.fetched[k].display = cli.options[n]
                    /\ ~cli.fetched[k].Canceled
        /\ cli.selected # NoSelection =>
              \E k \in 1..Len(cli.fetched) :
                  /\ cli.fetched[k] = cli.selected
                  /\ ~cli.fetched[k].Canceled

\* schedules sent the booking request of a full class, with the waitlist
\* flag, out of a list that held a canceled class
C24_Witness ==
    /\ cli.cmd = "schedules"
    /\ \E k \in 1..Len(cli.fetched) : cli.fetched[k].Canceled
    /\ cli.selected # NoSelection
    /\ \E i \in 1..Len(Events) :
          /\ Called(i, "BookClass")
          /\ Events[i].sent = 1
          /\ Events[i].arg.waitlist
          /\ cli.selected.BookingCapacity = 0

ResourceCalls == {"ListStudios", "GetStudiosSchedules", "BookClass",
                  "GetBookings", "CancelBooking"}

\* schedules has no studio ID: no flag, and no preferred studios it can read
NoStudioID ==
    /\ cli.cmd = "schedules"
    /\ cli.flag = << >>
    /\ \/ loadConfig(cli.fs).err # NoErr
       \/ loadConfig(cli.fs).config.PreferredStudioIDs = << >>

\* C30: in every command each resource call comes after an Authenticate
\* call of the same run that returned nil; a NewClient, Authenticate or
\* resource call that returned an error is the last thing the run does; and
\* schedules without a studio ID from the flag or from the saved preferred
\* studios makes no call and sends no request at all.
C30_AuthenticateFirstErrorsFatal ==
    /\ \A i \in 1..Len(Events) :
          /\ (Events[i].kind = "call" /\ Events[i].name \in ResourceCalls) =>
                \E j \in 1..(i - 1) : Called(j, "Authenticate") /\ Events[j].ok
          /\ (Events[i].kind = "call" /\ ~Events[i].ok) =>
                i = Len(Events) /\ cli.pc = "fatal"
          /\ Events[i].sent <= 1 + MaxRedirects
    /\ NoStudioID => Events = << >>

\* a resource call failed after a successful Authenticate and ended the run
C30_Witness ==
    /\ cli.pc = "fatal"
    /\ Len(Events) >= 3
    /\ Events[Len(Events)].kind = "call"
    /\ Events[Len(Events)].name \in ResourceCalls
    /\ ~Events[Len(Events)].ok
    /\ Events[Len(Events)].sent = 1
    /\ \E j \in 1..(Len(Events) - 1) : Called(j, "Authenticate") /\ Events[j].ok

(***************************************************************************)
(* Properties of concurrent Authenticate calls, under SpecConcurrent.      *)
(***************************************************************************)

\* the Authorization value the transport injects into a request
BearerInjected(rt) ==
    LET log == RoundTrip(rt, NewRequest("GET", GoodURL, "", << >>, "")).log
        i == CHOOSE j \in 1..Len(log) : log[j].key = "Authorization"
    IN log[i].value

\* both calls have returned
BothReturned == \A i \in Goroutines : procs.g[i].pc = "done"

\* Client.Token is not the token the installed transport injects
TokenAndBearerDiffer ==
    IF c.Transport = NilRT
    THEN c.Token # ""
    ELSE \/ c.Token = Torn
         \/ c.Transport = TornRT
         \/ BearerInjected(c.Transport) # "Bearer " \o c.Token

\* C29: Authenticate's NeedAuth check and its writes of Token and Transport
\* are not atomic.  A call sends an auth request (and one more for every
\* redirect it is answered with) only when its NeedAuth check read an
\* empty token, so two calls both send when both
\* checks came before a token was written; and when both calls have
\* returned, Client.Token differs from the bearer value of the installed
\* transport only if both calls sent a request and decoded different
\* tokens.  (That both states are reachable is C29_Witness.)
C29_UnsynchronisedAuthenticate ==
    /\ \A i \in Goroutines :
          /\ procs.g[i].sent <= 1 + MaxRedirects
          /\ procs.g[i].sent >= 1 => procs.g[i].read = ""
    /\ Len(procs.wire) = procs.g[1].sent + procs.g[2].sent
    /\ (BothReturned /\ TokenAndBearerDiffer) =>
          /\ \A i \in Goroutines : procs.g[i].sent >= 1
          /\ procs.g[1].token # procs.g[2].token

\* both calls sent an auth request, they decoded two different tokens that
\* are not empty, both have returned, and Client.Token is one token while
\* the installed transport injects the other
C29_Witness ==
    /\ BothReturned
    /\ \A i \in Goroutines : procs.g[i].sent = 1 /\ procs.g[i].token # ""
    /\ procs.g[1].token # procs.g[2].token
    /\ c.Token \in {procs.g[1].token, procs.g[2].token}
    /\ c.Transport # NilRT
    /\ c.Transport # TornRT
    /\ BearerInjected(c.Transport) # "Bearer " \o c.Token

====
